---- MODULE Spec2Model ----
(***************************************************************************)
(* Verification model of the typst-toolbox Markdown -> Typst transformer:  *)
(* the embed resolver (resolveEmbedNode / resolveEmbedsInTree), the        *)
(* pipeline entry point markdownToTypst, the generator's heading labels,   *)
(* lists and text escaping, the remark plugins, the batch driver           *)
(* batchConvert, the script sandbox, the content manager, the render cache *)
(* and the initialization of the WASM services.                            *)
(***************************************************************************)
EXTENDS Integers, Sequences, FiniteSets, TLC

(***************************************************************************)
(* Bounds of the explored instances.                                       *)
(***************************************************************************)
\* markdown files of the vault explored by SpecEmbed: note 1 .. note NMd
NMd == 2
\* longest markdown document (in tokens) explored by SpecEmbed
MaxItems == 2
\* largest value of options.maxEmbedDepth explored
MaxDepthOpt == 2
\* markdown files of the vaults explored by SpecConc
NConcMd == 2

VARIABLES
    vault,      \* the host: what the resolver callback and adapter.read may answer
    options,    \* the TypstTransformOptions shared by the conversions
    calls,      \* one record per markdownToTypst invocation
    lastIndex,  \* EMBED_PATTERN.lastIndex: module-level state of the global regex
    context,    \* the GeneratorContext of the most recently constructed TypstGenerator
    batch,      \* one batchConvert invocation: its arguments, queue, results and workers
    pass,       \* one generator pass over a sequence of headings, loop by loop
    render,     \* one call of a generator function: its tree, its context, its result
    pipeline,   \* one processor.run: the children of a parent and the plugins left to run
    splice,     \* one call of replaceInTextNode: its arguments and its outcome
    escape,     \* one call of escapeTypstText: its argument and its result
    sandbox,    \* one call of executeSandbox: the script and what it reached
    manager,    \* one BaseContentManager: its files, its cache, its calls in flight
    cache,      \* one TypstCache: its map, its access order, its counters
    renderer    \* one TypstWasmRenderer or TypstDocxService and its initialize() callers

embedVars == <<vault, options, calls, lastIndex, context>>
batchVars == <<batch>>
serviceVars == <<sandbox, manager, cache, renderer>>
unitVars == <<pass, render, pipeline, splice, escape, serviceVars>>
vars == <<vault, options, calls, lastIndex, context, batch,
          pass, render, pipeline, splice, escape,
          sandbox, manager, cache, renderer>>

\* a variable of a part of the program that a specification does not run
Idle == [pc |-> "unused"]
ServicesIdle ==
    /\ sandbox = Idle
    /\ manager = Idle
    /\ cache = Idle
    /\ renderer = Idle
UnitsIdle ==
    /\ ServicesIdle
    /\ pass = Idle
    /\ render = Idle
    /\ pipeline = Idle
    /\ splice = Idle
    /\ escape = Idle

(***************************************************************************)
(* Paths, links and resolver results.                                      *)
(***************************************************************************)
Path(id, ext) == [id |-> id, ext |-> ext]
NoPath == Path(0, "")
MdPathsUpTo(n) == {Path(i, "md") : i \in 1..n}
AssetPaths == {Path(1, "png"), Path(1, "pdf"), Path(1, "zip")}

\* the text between ![[ and ]]: it names a file; EmptyLink is a blank target
EmptyLink == NoPath

\* IMAGE_EXTENSIONS (only the members used by the explored vaults matter)
IMAGE_EXTENSIONS == {"png", "jpg", "jpeg", "gif", "bmp", "svg", "webp", "avif"}

\* what `await resolver(linkTarget, env.currentFile)` may settle to
ResolveNull == [status |-> "null", path |-> NoPath]
ResolveThrow == [status |-> "throw", path |-> NoPath]
ResolveOk(p) == [status |-> "ok", path |-> p]
\* EmbedResolveResult.isMarkdown as fallbackResolveFilePath computes it
IsMarkdown(p) == p.ext = "md"

\* what `await adapter.read(path)` may settle to
ReadOk(content) == [ok |-> TRUE, content |-> content]
ReadFail == [ok |-> FALSE, content |-> <<>>]

(***************************************************************************)
(* Markdown source, as a sequence of tokens.                               *)
(***************************************************************************)
NoSlug == [base |-> "", sfx |-> <<>>]
Slug(b, s) == [base |-> b, sfx |-> s]
SrcEmbed(link) == [k |-> "embed", link |-> link, slug |-> NoSlug]
SrcHeading(slug) == [k |-> "heading", link |-> EmptyLink, slug |-> slug]
SrcText == [k |-> "text", link |-> EmptyLink, slug |-> NoSlug]

RECURSIVE SeqsUpTo(_, _)
SeqsUpTo(S, n) ==
    IF n = 0 THEN {<<>>}
    ELSE LET shorter == SeqsUpTo(S, n - 1)
         IN shorter \cup {Append(s, x) : s \in {t \in shorter : Len(t) = n - 1}, x \in S}

(***************************************************************************)
(* Syntax-tree nodes.  A parsed document is the sequence of its heading,   *)
(* text and embedDocument nodes in document order (paragraph wrappers are  *)
(* not represented: they carry no state of their own).                     *)
(***************************************************************************)
Undefined == [set |-> FALSE, text |-> <<>>]
\* a resolveEmbedNode whose markdown branch never stores the generated text
NeverStored(text) == Undefined
Defined(text) == [set |-> TRUE, text |-> text]

NoData ==
    [originalPath |-> EmptyLink, assetPath |-> NoPath, depth |-> 0,
     assetKind |-> "undefined", convertedTypst |-> Undefined]

HeadingNode(slug) ==
    [type |-> "heading", slug |-> slug, value |-> <<>>, data |-> NoData,
     children |-> <<>>, cb |-> <<>>]

TextNode(value) ==
    [type |-> "text", slug |-> NoSlug, value |-> value, data |-> NoData,
     children |-> <<>>, cb |-> <<>>]

\* the node remarkEmbeds builds for one match: depth 0, no children;
\* cb is the log of the option callbacks invoked for this node
EmbedNode(link) ==
    [type |-> "embedDocument", slug |-> NoSlug, value |-> <<>>,
     data |-> [NoData EXCEPT !.originalPath = link],
     children |-> <<>>, cb |-> <<>>]

(***************************************************************************)
(* replaceInTextNode with EMBED_PATTERN, a global regular expression whose *)
(* lastIndex is module-level state.  Indices are 0-based as in the source; *)
(* one ![[...]] occurrence is one token.                                   *)
(***************************************************************************)
MinOf(S) == CHOOSE x \in S : \A y \in S : x <= y

\* RegExp.prototype.exec of a global pattern: search from lastIndex; a match
\* moves lastIndex past it, a failure resets lastIndex to 0
RegExpExec(value, li) ==
    LET hits == {j \in (li + 1)..Len(value) : value[j].k = "embed"}
    IN IF hits = {}
       THEN [found |-> FALSE, index |-> 0, lastIndex |-> 0]
       ELSE [found |-> TRUE, index |-> MinOf(hits) - 1, lastIndex |-> MinOf(hits)]

RECURSIVE ReplaceLoop(_, _, _, _)
ReplaceLoop(value, last, patternLastIndex, replacements) ==
    LET match == RegExpExec(value, patternLastIndex)
    IN IF ~match.found
       THEN [replaced |-> replacements /= <<>>,
             nodes |-> IF replacements = <<>> THEN <<TextNode(value)>>
                       ELSE IF last < Len(value)
                            THEN Append(replacements,
                                        TextNode(SubSeq(value, last + 1, Len(value))))
                            ELSE replacements,
             lastIndex |-> match.lastIndex]
       ELSE LET withText == IF match.index > last
                            THEN Append(replacements,
                                        TextNode(SubSeq(value, last + 1, match.index)))
                            ELSE replacements
                built == EmbedNode(value[match.index + 1].link)
            IN ReplaceLoop(value, match.index + 1, match.lastIndex,
                           Append(withText, built))

\* `pattern.lastIndex = 0` before the first exec
ResetLastIndex(entryLastIndex) == 0

ReplaceInTextNode(value, entryLastIndex) ==
    ReplaceLoop(value, 0, ResetLastIndex(entryLastIndex), <<>>)

(***************************************************************************)
(* processor.parse + processor.run: headings split the source into blocks, *)
(* every other run of tokens is one text node, which remarkEmbeds rewrites  *)
(* when the plugin is registered and the text holds an embed.               *)
(***************************************************************************)
RunEnd(src, i) ==
    LET stops == {j \in i..Len(src) : src[j].k = "heading"}
    IN IF stops = {} THEN Len(src) ELSE MinOf(stops) - 1

RECURSIVE ParseFrom(_, _, _, _)
ParseFrom(src, i, opts, li) ==
    IF i > Len(src) THEN [root |-> <<>>, lastIndex |-> li]
    ELSE IF src[i].k = "heading"
    THEN LET rest == ParseFrom(src, i + 1, opts, li)
         IN [root |-> <<HeadingNode(src[i].slug)>> \o rest.root,
             lastIndex |-> rest.lastIndex]
    ELSE LET e == RunEnd(src, i)
             value == SubSeq(src, i, e)
             scan == opts.enableEmbeds /\ \E j \in 1..Len(value) : value[j].k = "embed"
             r == IF scan THEN ReplaceInTextNode(value, li)
                  ELSE [replaced |-> FALSE, nodes |-> <<TextNode(value)>>, lastIndex |-> li]
             rest == ParseFrom(src, e + 1, opts, r.lastIndex)
         IN [root |-> r.nodes \o rest.root, lastIndex |-> rest.lastIndex]

ParseDocument(markdown, opts, li) == ParseFrom(markdown, 1, opts, li)

\* visit(root, "embedDocument", ...): the embed nodes of a tree, in order
RECURSIVE EmbedIndices(_, _)
EmbedIndices(root, i) ==
    IF i > Len(root) THEN <<>>
    ELSE IF root[i].type = "embedDocument" THEN <<i>> \o EmbedIndices(root, i + 1)
    ELSE EmbedIndices(root, i + 1)

(***************************************************************************)
(* The generator.  Output text is a sequence of tokens; the text generated  *)
(* for an embedded markdown document is the `content` of its quote token.   *)
(***************************************************************************)
OutToken(t, label, from, to, content) ==
    [t |-> t, label |-> label, from |-> from, to |-> to, content |-> content]

\* `${prefix}${base}-${counter}` (labelPrefix is the default "")
Suffixed(base, counter) == [base EXCEPT !.sfx = Append(base.sfx, counter)]

RECURSIVE SuffixSearch(_, _, _)
SuffixSearch(collectedLabels, base, counter) ==
    IF Suffixed(base, counter) \in collectedLabels
    THEN SuffixSearch(collectedLabels, base, counter + 1)
    ELSE Suffixed(base, counter)

\* the first free label is registered in context.collectedLabels and returned
ensureLabel(ctx, base) ==
    LET label == IF base \in ctx.collectedLabels
                 THEN SuffixSearch(ctx.collectedLabels, base, 2)
                 ELSE base
    IN [label |-> label, ctx |-> [ctx EXCEPT !.collectedLabels = @ \cup {label}]]

generateHeading(node, ctx) ==
    IF node.slug = NoSlug
    THEN [out |-> <<OutToken("heading", NoSlug, NoPath, NoPath, <<>>)>>, ctx |-> ctx,
          threw |-> FALSE]
    ELSE LET ensured == ensureLabel(ctx, node.slug)
         IN [out |-> <<OutToken("heading", ensured.label, NoPath, NoPath, <<>>)>>,
             ctx |-> ensured.ctx, threw |-> FALSE]

generateEmbedDocument(node, ctx) ==
    LET data == node.data
        assetPath == IF data.originalPath /= EmptyLink THEN data.originalPath
                     ELSE data.assetPath
    IN IF data.assetKind \in {"pdf", "image"}
       THEN <<OutToken("image", NoSlug, ctx.currentFile, assetPath, <<>>)>>
       ELSE IF data.assetKind = "binary"
       THEN <<OutToken("link", NoSlug, ctx.currentFile, assetPath, <<>>)>>
       ELSE IF data.assetKind = "markdown" /\ data.convertedTypst.set
       THEN <<OutToken("quote", NoSlug, NoPath, data.originalPath,
                       data.convertedTypst.text)>>
       \* fallback: no children to render, so the quote names the original path
       ELSE IF data.originalPath /= EmptyLink
       THEN <<OutToken("fallback", NoSlug, NoPath, data.originalPath, <<>>)>>
       ELSE <<>>

\* a result of a generator function: the text, the context as the function
\* leaves it, and whether it returned or threw
Returned(out, ctx) == [out |-> out, ctx |-> ctx, threw |-> FALSE]
Threw(ctx) == [out |-> <<>>, ctx |-> ctx, threw |-> TRUE]

\* escapeTypstText(node.value): text.replace throws when value is no string
generateText(node, ctx) ==
    IF \E j \in 1..Len(node.value) : node.value[j].k = "undefined"
    THEN Threw(ctx)
    ELSE Returned(<<OutToken("text", NoSlug, NoPath, NoPath, <<>>)>>, ctx)

RECURSIVE renderChildren(_, _, _)

\* inside a list item a paragraph ends with a newline, elsewhere with
\* #parbreak()
generateParagraph(node, ctx) ==
    LET children == renderChildren(node.children, 1, ctx)
    IN IF children.threw THEN children
       ELSE IF children.ctx.inListItem THEN children
       ELSE Returned(Append(children.out,
                            OutToken("parbreak", NoSlug, NoPath, NoPath, <<>>)),
                     children.ctx)

\* the flag is put back by the statement after renderChildren, which an
\* exception skips
formatListItem(item, ctx) ==
    LET originalFlag == ctx.inListItem
        content == renderChildren(item.children, 1, [ctx EXCEPT !.inListItem = TRUE])
    IN IF content.threw THEN content
       ELSE Returned(<<OutToken("item", NoSlug, NoPath, NoPath, content.out)>>,
                     [content.ctx EXCEPT !.inListItem = originalFlag])

\* node.children.map(formatListItem)
RECURSIVE formatItems(_, _, _)
formatItems(children, i, ctx) ==
    IF i > Len(children) THEN Returned(<<>>, ctx)
    ELSE LET first == formatListItem(children[i], ctx)
             rest == formatItems(children, i + 1, first.ctx)
         IN IF first.threw THEN first
            ELSE IF rest.threw THEN rest
            ELSE Returned(first.out \o rest.out, rest.ctx)

\* listDepth is raised around the items and put back after them
generateList(node, ctx) ==
    LET originalDepth == ctx.listDepth
        items == formatItems(node.children, 1, [ctx EXCEPT !.listDepth = @ + 1])
    IN IF items.threw THEN items
       ELSE Returned(items.out, [items.ctx EXCEPT !.listDepth = originalDepth])

\* content.replace(/\n#parbreak\(\)\n$/, ""): one trailing #parbreak() goes
WithoutTrailingParbreak(content) ==
    IF content /= <<>> /\ content[Len(content)].t = "parbreak"
    THEN SubSeq(content, 1, Len(content) - 1)
    ELSE content

visitNode(node, ctx) ==
    IF node.type = "heading" THEN generateHeading(node, ctx)
    ELSE IF node.type = "text" THEN generateText(node, ctx)
    ELSE IF node.type = "paragraph" THEN generateParagraph(node, ctx)
    ELSE IF node.type = "list" THEN generateList(node, ctx)
    ELSE IF node.type = "embedDocument"
    THEN Returned(generateEmbedDocument(node, ctx), ctx)
    ELSE IF node.type = "blockquote"
    THEN LET content == renderChildren(node.children, 1, ctx)
         IN IF content.threw THEN content
            ELSE Returned(<<OutToken("blockquote", NoSlug, NoPath, NoPath,
                                     WithoutTrailingParbreak(content.out))>>,
                          content.ctx)
    ELSE Returned(<<>>, ctx)

\* children.map(visitNode).join("")
renderChildren(children, i, ctx) ==
    IF i > Len(children) THEN Returned(<<>>, ctx)
    ELSE LET first == visitNode(children[i], ctx)
             rest == renderChildren(children, i + 1, first.ctx)
         IN IF first.threw THEN first
            ELSE IF rest.threw THEN rest
            ELSE Returned(first.out \o rest.out, rest.ctx)

\* TypstGenerator.generate: the output and the context as generation leaves it
generate(root, ctx) == renderChildren(root, 1, ctx)

\* a generator that keeps the label registry of the generator before it
TypstGeneratorSharingLabels(previous, currentFile) ==
    [currentDepth |-> 0, inCodeBlock |-> FALSE, inListItem |-> FALSE,
     listDepth |-> 0, collectedLabels |-> previous.collectedLabels,
     currentFile |-> currentFile]

\* new TypstGenerator(options, currentFile): a context of its own, whatever
\* context `previous` an earlier generator left behind
TypstGenerator(previous, currentFile) ==
    [currentDepth |-> 0, inCodeBlock |-> FALSE, inListItem |-> FALSE,
     listDepth |-> 0, collectedLabels |-> {}, currentFile |-> currentFile]

\* before any generator has been constructed
InitialContext ==
    [currentDepth |-> 0, inCodeBlock |-> FALSE, inListItem |-> FALSE,
     listDepth |-> 0, collectedLabels |-> {}, currentFile |-> NoPath]

(***************************************************************************)
(* The embed resolver.  A frame is one activation of resolveEmbedsInTree   *)
(* together with the resolveEmbedNode call of its current loop iteration;  *)
(* frames[1] belongs to the top-level document.                            *)
(***************************************************************************)
Frame(root, currentFile, depth, stack) ==
    [root |-> root, embedNodes |-> EmbedIndices(root, 1), i |-> 1,
     currentFile |-> currentFile, depth |-> depth, stack |-> stack,
     pc |-> "loop", resolved |-> NoPath, transformed |-> <<>>]

\* deepest frame chain the model lets the resolver build: a stack holds each
\* markdown path at most once, so the resolver itself builds at most NMd frames
MaxFrames == NMd + 1

Top(c) == calls[c].frames[Len(calls[c].frames)]
CurrentNode(f) == f.root[f.embedNodes[f.i]]
WithNode(f, node) == [f EXCEPT !.root[f.embedNodes[f.i]] = node]
\* the resolveEmbedNode call returns and the for loop moves on
NextIteration(f) == [f EXCEPT !.i = @ + 1, !.pc = "loop", !.resolved = NoPath,
                              !.transformed = <<>>]
SetTop(c, f) == [calls EXCEPT ![c].frames[Len(calls[c].frames)] = f]
\* the messages of the errors adapter.read rejects with: the host's choice
AdapterMessages == {"cannot read the embedded file", "boom"}

Reject(c, why) == [calls EXCEPT ![c].pc = "rejected", ![c].error = why]

\* node.data?.originalPath ?? node.data?.rawTarget ?? node.data?.alias ?? ""
LinkTarget(node) == node.data.originalPath

\* the depth check off by one: depth > options.maxEmbedDepth
DepthExceededStrict(depth, opts) == depth > opts.maxEmbedDepth

\* depth >= options.maxEmbedDepth
DepthExceeded(depth, opts) == depth >= opts.maxEmbedDepth

\* a cycle check that looks at the embedding file only
IncludesParentOnly(stack, path) == stack /= <<>> /\ stack[Len(stack)] = path

\* stack.includes(resolved.path)
Includes(stack, path) == \E k \in 1..Len(stack) : stack[k] = path

\* the asset kind of a non-markdown file
AssetKind(extension) ==
    IF extension = "pdf" THEN "pdf"
    ELSE IF extension \in IMAGE_EXTENSIONS THEN "image"
    ELSE "binary"

\* a nested call that leaves depth and stack to resolveEmbedsInTree's defaults
NestedDefaults(depth, stack, path) == [depth |-> 0, stack |-> <<>>]

\* the depth and stack resolveEmbedNode passes to the nested resolveEmbedsInTree
NestedArguments(depth, stack, path) ==
    [depth |-> depth + 1, stack |-> Append(stack, path)]

\* a resolver seeded with the default empty stack
SeedEmpty(currentFile) == <<>>

\* the stack markdownToTypst seeds the resolver with
SeedStack(currentFile) == <<currentFile>>

\* options.onX?.(path, ...): the node's log of callback invocations
Notify(node, callback, path) ==
    [node EXCEPT !.cb = Append(@, [name |-> callback, path |-> path])]

\* a resolveEmbedNode that records the resolved path on the node before the
\* depth and cycle checks
ResolvedDataFirst(node, resolved, opts, depth, stack) ==
    IF resolved.status = "null"
    THEN [node |-> Notify(node, "onMissingEmbed", LinkTarget(node)), read |-> FALSE]
    ELSE LET data == [node.data EXCEPT !.originalPath = resolved.path,
                                       !.assetPath = resolved.path,
                                       !.depth = depth + 1]
             seen == [node EXCEPT !.data = data]
         IN IF DepthExceeded(depth, opts)
            THEN [node |-> Notify(seen, "onEmbedDepthExceeded", resolved.path),
                  read |-> FALSE]
            ELSE IF Includes(stack, resolved.path)
            THEN [node |-> Notify(seen, "onCircularReference", resolved.path),
                  read |-> FALSE]
            ELSE IF ~IsMarkdown(resolved.path)
            THEN [node |-> [node EXCEPT
                               !.data = [data EXCEPT
                                            !.assetKind = AssetKind(resolved.path.ext)],
                               !.children = <<>>],
                  read |-> FALSE]
            ELSE [node |-> [node EXCEPT !.data = [data EXCEPT !.assetKind = "markdown"]],
                  read |-> TRUE]

\* resolveEmbedNode from the resolver's answer to its next await or return:
\* the node as it leaves it, and whether the embedded file is read next
Resolved(node, resolved, opts, depth, stack) ==
    IF resolved.status = "null"
    THEN [node |-> Notify(node, "onMissingEmbed", LinkTarget(node)), read |-> FALSE]
    ELSE IF DepthExceeded(depth, opts)
    THEN [node |-> Notify(node, "onEmbedDepthExceeded", resolved.path), read |-> FALSE]
    ELSE IF Includes(stack, resolved.path)
    THEN [node |-> Notify(node, "onCircularReference", resolved.path), read |-> FALSE]
    ELSE LET data == [node.data EXCEPT !.originalPath = resolved.path,
                                       !.assetPath = resolved.path,
                                       !.depth = depth + 1]
         IN IF ~IsMarkdown(resolved.path)
            THEN [node |-> [node EXCEPT
                               !.data = [data EXCEPT
                                            !.assetKind = AssetKind(resolved.path.ext)],
                               !.children = <<>>],
                  read |-> FALSE]
            ELSE [node |-> [node EXCEPT !.data = [data EXCEPT !.assetKind = "markdown"]],
                  read |-> TRUE]

(***************************************************************************)
(* markdownToTypst and the resolver, one action per stretch of code between *)
(* two awaits.                                                              *)
(***************************************************************************)
Calls == {1, 2}

NewCall(markdown, hasEnv, currentFile) ==
    [pc |-> "idle", error |-> "", message |-> "", markdown |-> markdown, hasEnv |-> hasEnv,
     currentFile |-> currentFile, root |-> <<>>, frames |-> <<>>, out |-> <<>>]

\* a call slot of a specification that never invokes it
NoCall == [NewCall(<<>>, FALSE, NoPath) EXCEPT !.pc = "unused"]

\* markdownToTypst up to `await processor.run(parsed)`
MarkdownToTypst(c) ==
    /\ calls[c].pc = "idle"
    /\ LET parsed == ParseDocument(calls[c].markdown, options, lastIndex)
       IN /\ calls' = [calls EXCEPT ![c].pc = "run", ![c].root = parsed.root]
          /\ lastIndex' = parsed.lastIndex
    /\ UNCHANGED <<vault, options, context, batchVars, unitVars>>

\* the top-level processor.run settled: resolveEmbedsInTree is entered when an
\* embed environment was supplied and embeds are enabled
ResolveEmbedsInTree(c) ==
    /\ calls[c].pc = "run"
    /\ calls' = IF calls[c].hasEnv /\ options.enableEmbeds
                THEN [calls EXCEPT
                        ![c].pc = "resolve",
                        ![c].frames = <<Frame(calls[c].root, calls[c].currentFile, 0,
                                              SeedStack(calls[c].currentFile))>>]
                ELSE [calls EXCEPT ![c].pc = "generate"]
    /\ UNCHANGED <<vault, options, lastIndex, context, batchVars, unitVars>>

\* one loop iteration enters resolveEmbedNode, up to `await resolver(...)`
ResolveEmbedNode(c) ==
    /\ calls[c].pc = "resolve"
    /\ LET f == Top(c)
       IN /\ f.pc = "loop"
          /\ f.i <= Len(f.embedNodes)
          /\ calls' = IF LinkTarget(CurrentNode(f)) = EmptyLink
                      THEN SetTop(c, NextIteration(f))
                      ELSE SetTop(c, [f EXCEPT !.pc = "resolver"])
    /\ UNCHANGED <<vault, options, lastIndex, context, batchVars, unitVars>>

\* the resolver settled: the soft stops, the asset kinds, or on to adapter.read
ResolverSettles(c) ==
    /\ calls[c].pc = "resolve"
    /\ LET f == Top(c)
       IN /\ f.pc = "resolver"
          /\ \E resolved \in vault.resolve[LinkTarget(CurrentNode(f))] :
                calls' =
                    IF resolved.status = "throw" THEN Reject(c, "resolver")
                    ELSE LET r == Resolved(CurrentNode(f), resolved, options,
                                           f.depth, f.stack)
                         IN IF r.read
                            THEN SetTop(c, [WithNode(f, r.node) EXCEPT
                                               !.pc = "read",
                                               !.resolved = resolved.path])
                            ELSE SetTop(c, NextIteration(WithNode(f, r.node)))
    /\ UNCHANGED <<vault, options, lastIndex, context, batchVars, unitVars>>

\* adapter.read settled: a failure rejects the whole conversion, a content is
\* parsed and transformed up to `await processor.run(parsed)`
ReadSettles(c) ==
    /\ calls[c].pc = "resolve"
    /\ LET f == Top(c)
       IN /\ f.pc = "read"
          /\ \E answer \in vault.read[f.resolved] :
                IF ~answer.ok
                THEN /\ \E message \in AdapterMessages :
                           calls' = [Reject(c, "read") EXCEPT ![c].message = message]
                     /\ UNCHANGED lastIndex
                ELSE LET parsed == ParseDocument(answer.content, options, lastIndex)
                     IN /\ calls' = SetTop(c, [f EXCEPT !.pc = "run",
                                                        !.transformed = parsed.root])
                        /\ lastIndex' = parsed.lastIndex
    /\ UNCHANGED <<vault, options, context, batchVars, unitVars>>

\* the embedded file's processor.run settled: the nested resolveEmbedsInTree
NestedResolveEmbedsInTree(c) ==
    /\ calls[c].pc = "resolve"
    /\ Len(calls[c].frames) < MaxFrames
    /\ LET f == Top(c)
           args == NestedArguments(f.depth, f.stack, f.resolved)
       IN /\ f.pc = "run"
          /\ calls' = [calls EXCEPT
                         ![c].frames =
                            Append(SubSeq(@, 1, Len(@) - 1) \o <<[f EXCEPT !.pc = "nested"]>>,
                                   Frame(f.transformed, f.resolved, args.depth, args.stack))]
    /\ UNCHANGED <<vault, options, lastIndex, context, batchVars, unitVars>>

\* the for loop of resolveEmbedsInTree is over.  A nested tree is generated by
\* a generator of its own and stored on the embedding node, whose children are
\* cleared; the top-level tree goes on to the final generator.
ReturnFromTree(c) ==
    /\ calls[c].pc = "resolve"
    /\ LET f == Top(c)
           n == Len(calls[c].frames)
       IN /\ f.pc = "loop"
          /\ f.i > Len(f.embedNodes)
          /\ IF n = 1
             THEN /\ calls' = [calls EXCEPT ![c].pc = "generate", ![c].root = f.root,
                                            ![c].frames = <<>>]
                  /\ UNCHANGED context
             ELSE LET parent == calls[c].frames[n - 1]
                      generated == generate(f.root, TypstGenerator(context, parent.resolved))
                      node == CurrentNode(parent)
                      done == [node EXCEPT
                                 !.data = [@ EXCEPT !.convertedTypst = Defined(generated.out)],
                                 !.children = <<>>]
                  IN /\ calls' = [calls EXCEPT
                                    ![c].frames =
                                       Append(SubSeq(@, 1, n - 2),
                                              NextIteration(WithNode(parent, done)))]
                     /\ context' = generated.ctx
    /\ UNCHANGED <<vault, options, lastIndex, batchVars, unitVars>>

\* new TypstGenerator(fullOptions, currentFile).generate(transformed)
GenerateTop(c) ==
    /\ calls[c].pc = "generate"
    /\ LET currentFile == IF calls[c].hasEnv THEN calls[c].currentFile ELSE NoPath
           generated == generate(calls[c].root, TypstGenerator(context, currentFile))
       IN /\ calls' = [calls EXCEPT ![c].pc = "done", ![c].out = generated.out]
          /\ context' = generated.ctx
    /\ UNCHANGED <<vault, options, lastIndex, batchVars, unitVars>>

Settled(c) == calls[c].pc \in {"done", "rejected", "unused"}

(***************************************************************************)
(* SpecEmbed: one conversion against an arbitrary host.  Every resolver     *)
(* call may answer null, a rejection, or any file of the vault, and every   *)
(* read may fail or return any document, so that every vault over these     *)
(* files (also one that changes while the conversion runs) is covered.      *)
(***************************************************************************)
\* a link text that names some file (which one is the resolver's business)
SomeLink == Path(1, "link")

EmbedTokens == {SrcEmbed(SomeLink), SrcEmbed(EmptyLink)}
\* the top-level document holds up to MaxItems embeds, an embedded one at most one
EmbedDocs == SeqsUpTo(EmbedTokens, MaxItems)
NestedDocs == {<<>>} \cup {<<t>> : t \in EmbedTokens}

ArbitraryVault ==
    [resolve |-> [l \in {SomeLink} |->
                    {ResolveNull, ResolveThrow}
                        \cup {ResolveOk(p) : p \in MdPathsUpTo(NMd) \cup {Path(1, "png")}}],
     read |-> [p \in MdPathsUpTo(NMd) |-> {ReadFail} \cup {ReadOk(d) : d \in NestedDocs}]]

NoBatch == [pc |-> "unused"]

InitEmbed ==
    /\ vault = ArbitraryVault
    /\ options \in [maxEmbedDepth : 0..MaxDepthOpt, enableEmbeds : BOOLEAN]
    /\ \E markdown \in EmbedDocs, hasEnv \in BOOLEAN :
          calls = [c \in Calls |-> IF c = 1
                                   THEN NewCall(markdown, hasEnv, Path(1, "md"))
                                   ELSE NoCall]
    /\ lastIndex = 0
    /\ context = InitialContext
    /\ batch = NoBatch
    /\ UnitsIdle

NextEmbed ==
    \/ MarkdownToTypst(1)
    \/ ResolveEmbedsInTree(1)
    \/ ResolveEmbedNode(1)
    \/ ResolverSettles(1)
    \/ ReadSettles(1)
    \/ NestedResolveEmbedsInTree(1)
    \/ ReturnFromTree(1)
    \/ GenerateTop(1)

SpecEmbed == InitEmbed /\ [][NextEmbed]_vars

\* every resolver and read call settles, and every continuation is scheduled
SpecEmbedFair == SpecEmbed /\ WF_vars(NextEmbed)

(***************************************************************************)
(* Claims about the embed resolver.                                         *)
(***************************************************************************)
EmbedsOf(root) == {j \in 1..Len(root) : root[j].type = "embedDocument"}
Expanded(node) == node.data.assetKind /= "undefined"
\* the node is as the parser built it
Unexpanded(node) ==
    /\ node.data = [NoData EXCEPT !.originalPath = node.data.originalPath]
    /\ node.children = <<>>
CallbackNames(node) == {node.cb[j].name : j \in 1..Len(node.cb)}
\* the resolver has answered for this node and resolveEmbedNode has returned
Processed(node) == node.cb /= <<>> \/ Expanded(node)
Resolving(c) == calls[c].hasEnv /\ options.enableEmbeds

\* the trees of a call: those of its frames, and the top-level tree once the
\* resolver has returned it
TreesOf(c) ==
    {calls[c].frames[k].root : k \in 1..Len(calls[c].frames)} \cup {calls[c].root}

\* C1: with every resolver and read call settling and every continuation
\* scheduled, markdownToTypst with an embed environment eventually returns
\* (resolves or rejects), whatever the vault answers and whatever
\* maxEmbedDepth is: the resolver performs finitely many steps.
C1_ConversionTerminates == <>Settled(1)

\* a conversion that met a cycle at the top level and expanded an embedded
\* markdown document that itself holds an embed has returned
C1_Witness ==
    /\ calls[1].pc = "done"
    /\ \E j \in EmbedsOf(calls[1].root) :
          "onCircularReference" \in CallbackNames(calls[1].root[j])
    /\ \E j \in EmbedsOf(calls[1].root) :
          /\ calls[1].root[j].data.assetKind = "markdown"
          /\ calls[1].root[j].data.convertedTypst.text /= <<>>

\* C2: at every point the visited-path stack of every activation holds no
\* path twice; the top-level stack is the current file alone, and a nested
\* stack is its parent's stack plus the markdown file being expanded, which
\* was not on the parent's stack.
C2_StackHasNoDuplicates ==
    \A c \in Calls : \A k \in 1..Len(calls[c].frames) :
        LET f == calls[c].frames[k]
        IN /\ \A a, b \in 1..Len(f.stack) : a /= b => f.stack[a] /= f.stack[b]
           /\ k = 1 => f.stack = <<calls[c].currentFile>>
           /\ k > 1 =>
                LET parent == calls[c].frames[k - 1]
                IN /\ f.stack = Append(parent.stack, parent.resolved)
                   /\ f.currentFile = parent.resolved
                   /\ IsMarkdown(parent.resolved)
                   /\ CurrentNode(parent).data.assetKind = "markdown"
                   /\ \A a \in 1..Len(parent.stack) : parent.stack[a] /= parent.resolved

\* an embedded file was pushed on the stack, and an embed inside it that
\* leads back to the top-level document was refused
C2_Witness ==
    \E k \in 2..Len(calls[1].frames) :
        LET f == calls[1].frames[k]
        IN /\ Len(f.stack) = k
           /\ \E j \in EmbedsOf(f.root) :
                 f.root[j].cb = <<[name |-> "onCircularReference",
                                   path |-> calls[1].currentFile]>>

\* C3: the activation at nesting level k runs at depth k - 1; a node is
\* expanded (classified, read or re-parsed) only at a depth below
\* maxEmbedDepth and then carries depth + 1 <= maxEmbedDepth, so at most
\* maxEmbedDepth levels are nested below the top-level tree; at a depth at or
\* beyond the limit every embed the resolver could resolve is reported through
\* onEmbedDepthExceeded and left as parsed.
C3_NoExpansionAtDepthLimit ==
    \A c \in Calls :
        /\ Len(calls[c].frames) <= options.maxEmbedDepth + 1
        /\ \A k \in 1..Len(calls[c].frames) :
              LET f == calls[c].frames[k]
              IN /\ f.depth = k - 1
                 /\ f.pc \in {"read", "run", "nested"} => f.depth < options.maxEmbedDepth
                 /\ \A j \in EmbedsOf(f.root) :
                       /\ Expanded(f.root[j]) =>
                             /\ f.depth < options.maxEmbedDepth
                             /\ f.root[j].data.depth = f.depth + 1
                       /\ f.depth >= options.maxEmbedDepth =>
                             /\ Unexpanded(f.root[j])
                             /\ CallbackNames(f.root[j])
                                   \subseteq {"onMissingEmbed", "onEmbedDepthExceeded"}
        /\ \A j \in EmbedsOf(calls[c].root) :
              Expanded(calls[c].root[j]) =>
                  /\ 0 < options.maxEmbedDepth
                  /\ calls[c].root[j].data.depth = 1

\* an embed met exactly at the limit, inside an embedded document
C3_Witness ==
    \E k \in 1..Len(calls[1].frames) :
        LET f == calls[1].frames[k]
        IN /\ f.depth >= 1
           /\ f.depth = options.maxEmbedDepth
           /\ \E j \in EmbedsOf(f.root) :
                 "onEmbedDepthExceeded" \in CallbackNames(f.root[j])

AnsweredOwnPath(c, node) ==
    \/ \E j \in 1..Len(node.cb) :
          node.cb[j].name /= "onMissingEmbed" /\ node.cb[j].path = calls[c].currentFile
    \/ node.data.assetPath = calls[c].currentFile

TopLevelTrees(c) ==
    IF calls[c].frames = <<>> THEN {calls[c].root} ELSE {calls[c].frames[1].root}

\* the conversion's own file is neither read nor expanded, at any depth
OwnFileNeverRead(c) ==
    \A k \in 1..Len(calls[c].frames) :
        /\ calls[c].frames[k].resolved /= calls[c].currentFile
        /\ k > 1 => calls[c].frames[k].currentFile /= calls[c].currentFile

\* C5 as stated: a top-level embed that resolves to the document's own path
\* is stopped through the circular-reference callback, and the document's own
\* file is never read or expanded.
C5_SelfEmbedStoppedByCircularCallback ==
    \A c \in Calls :
        /\ OwnFileNeverRead(c)
        /\ \A root \in TopLevelTrees(c) : \A j \in EmbedsOf(root) :
              AnsweredOwnPath(c, root[j]) =>
                  /\ Unexpanded(root[j])
                  /\ root[j].cb = <<[name |-> "onCircularReference",
                                     path |-> calls[c].currentFile]>>

\* C5 amended: the self-embed is stopped at depth 0 and the document's own
\* file is never read or expanded; the callback is onCircularReference when
\* maxEmbedDepth > 0 and onEmbedDepthExceeded when maxEmbedDepth <= 0, because
\* the depth check precedes the cycle check.
C5_SelfEmbedStoppedAtDepthZero ==
    \A c \in Calls :
        /\ OwnFileNeverRead(c)
        /\ \A root \in TopLevelTrees(c) : \A j \in EmbedsOf(root) :
              AnsweredOwnPath(c, root[j]) =>
                  /\ Unexpanded(root[j])
                  /\ root[j].cb =
                        <<[name |-> IF options.maxEmbedDepth > 0
                                    THEN "onCircularReference"
                                    ELSE "onEmbedDepthExceeded",
                           path |-> calls[c].currentFile]>>

\* a top-level self-embed was reported as circular while another embed of the
\* same document was expanded
C5_Witness ==
    /\ calls[1].pc = "done"
    /\ \E j \in EmbedsOf(calls[1].root) :
          calls[1].root[j].cb = <<[name |-> "onCircularReference",
                                   path |-> calls[1].currentFile]>>
    /\ \E j \in EmbedsOf(calls[1].root) : calls[1].root[j].data.assetKind = "markdown"

(***************************************************************************)
(* batchConvert.  A worker is an async function: it runs without            *)
(* interruption from one await to the next, so one action is the settling   *)
(* of an await together with all the code up to the next await.             *)
(***************************************************************************)
\* longest inputFiles list explored by SpecBatch
MaxInputs == 3
\* largest options.concurrency explored by SpecBatch
MaxConcurrencyOpt == 2
\* the default of `options.concurrency ?? 4`
DefaultConcurrency == 4

\* input file names; "" is the empty string, which JavaScript treats as falsy
FileNames == {"", "a", "b"}

\* options.concurrency: undefined, or a number
ConcurrencyUnset == [set |-> FALSE, value |-> 0]
ConcurrencySet(n) == [set |-> TRUE, value |-> n]

Max(a, b) == IF a >= b THEN a ELSE b

\* a batchConvert that ignores options.concurrency
ConcurrencyIgnoringOption(option) == DefaultConcurrency

\* Math.max(1, options.concurrency ?? 4)
Concurrency(option) ==
    Max(1, IF option.set THEN option.value ELSE DefaultConcurrency)

\* the state of a batchConvert invocation once the queue and the result
\* arrays exist; `thrown` logs every error raised inside a worker's try block,
\* `uses` counts, for the element at each position of inputFiles, how often it
\* was handed to a worker and passed to read, markdownToTypst and write
NewBatch(inputFiles, concurrency, hasCreateEnv) ==
    [pc |-> "start", inputFiles |-> inputFiles, concurrency |-> concurrency,
     hasCreateEnv |-> hasCreateEnv, queue |-> inputFiles,
     success |-> <<>>, failed |-> <<>>, thrown |-> <<>>, workers |-> <<>>,
     uses |-> [j \in 1..Len(inputFiles) |->
                 [taken |-> 0, read |-> 0, converted |-> 0, written |-> 0]]]

\* the position in inputFiles of the element at the front of the queue
Front(b) == Len(b.inputFiles) - Len(b.queue) + 1

\* a worker whose queue[0] reads the front element without removing it
WorkerLoopWithoutShift(b, w) ==
    IF b.workers[w].pc /= "loop" THEN b
    ELSE IF b.queue = <<>> \/ b.uses[Front(b)].taken >= 2
    THEN [b EXCEPT !.workers[w].pc = "returned"]
    ELSE LET file == Head(b.queue)
             index == Front(b)
             peeked == [b EXCEPT !.workers[w].file = file,
                                 !.workers[w].index = index,
                                 !.uses[index].taken = @ + 1]
         IN IF file = ""
            THEN [peeked EXCEPT !.workers[w].pc = "dropped"]
            ELSE [peeked EXCEPT !.workers[w].pc = "read", !.uses[index].read = @ + 1]

\* worker(), from the test of its while loop to its next await or its return
WorkerLoop(b, w) ==
    IF b.workers[w].pc /= "loop" THEN b
    ELSE IF b.queue = <<>>
    THEN [b EXCEPT !.workers[w].pc = "returned"]
    ELSE LET file == Head(b.queue)
             index == Front(b)
             shifted == [b EXCEPT !.queue = Tail(@), !.workers[w].file = file,
                                  !.workers[w].index = index,
                                  !.uses[index].taken = @ + 1]
         IN IF file = ""
            THEN [shifted EXCEPT !.workers[w].pc = "dropped"]
            ELSE [shifted EXCEPT !.workers[w].pc = "read", !.uses[index].read = @ + 1]

\* a worker without the try/catch: the error leaves worker()
Rethrow(b, w, error) == [b EXCEPT !.workers[w].pc = "threw"]

\* the catch block: failed.push({ file, error: message })
Catch(b, w, error) ==
    [b EXCEPT !.failed = Append(@, [file |-> b.workers[w].file, error |-> error]),
              !.workers[w].pc = "loop"]

\* an await or a call inside the try block throws `error`
Fail(b, w, error) ==
    LET raised == [b EXCEPT !.thrown =
                      Append(@, [file |-> b.workers[w].file, error |-> error])]
    IN WorkerLoop(Catch(raised, w, error), w)

\* markdownToTypst(markdown, ...) is called for the worker's file
Convert(b, w) ==
    [b EXCEPT !.workers[w].pc = "convert", !.uses[b.workers[w].index].converted = @ + 1]

\* success.push(file), and back to the while test
Succeed(b, w) ==
    WorkerLoop([b EXCEPT !.success = Append(@, b.workers[w].file),
                         !.workers[w].pc = "loop"], w)

\* Array.from({ length: concurrency }, () => worker()): each worker() call
\* runs up to its first await before the next worker is created
RECURSIVE Spawn(_, _)
Spawn(b, n) ==
    IF n = 0 THEN b
    ELSE LET created == [b EXCEPT !.workers = Append(@, [pc |-> "loop", file |-> "", index |-> 0])]
         IN Spawn(WorkerLoop(created, Len(created.workers)), n - 1)

Workers == 1..DefaultConcurrency

\* batchConvert up to `await Promise.all(workers)`
BatchConvert ==
    /\ batch.pc = "start"
    /\ batch' = [Spawn(batch, Concurrency(batch.concurrency)) EXCEPT !.pc = "running"]
    /\ UNCHANGED <<embedVars, unitVars>>

Awaiting(w, pc) ==
    /\ batch.pc = "running"
    /\ w <= Len(batch.workers)
    /\ batch.workers[w].pc = pc

\* `await read(file)` settles
WorkerReadSettles(w) ==
    /\ Awaiting(w, "read")
    /\ \E ok \in BOOLEAN :
          batch' = IF ~ok THEN Fail(batch, w, "read")
                   ELSE IF batch.hasCreateEnv
                   THEN [batch EXCEPT !.workers[w].pc = "env"]
                   ELSE Convert(batch, w)
    /\ UNCHANGED <<embedVars, unitVars>>

\* `await options.createEmbedEnvironment(file)` settles
WorkerEnvSettles(w) ==
    /\ Awaiting(w, "env")
    /\ \E ok \in BOOLEAN :
          batch' = IF ~ok THEN Fail(batch, w, "env")
                   ELSE Convert(batch, w)
    /\ UNCHANGED <<embedVars, unitVars>>

\* `await markdownToTypst(...)` settles; resolveOutput runs right after it
WorkerConvertSettles(w) ==
    /\ Awaiting(w, "convert")
    /\ \E outcome \in {"ok", "convert", "output"} :
          batch' = IF outcome /= "ok" THEN Fail(batch, w, outcome)
                   ELSE [batch EXCEPT !.workers[w].pc = "write",
                                      !.uses[batch.workers[w].index].written = @ + 1]
    /\ UNCHANGED <<embedVars, unitVars>>

\* `await write(outputPath, typstContent)` settles
WorkerWriteSettles(w) ==
    /\ Awaiting(w, "write")
    /\ \E ok \in BOOLEAN :
          batch' = IF ~ok THEN Fail(batch, w, "write") ELSE Succeed(batch, w)
    /\ UNCHANGED <<embedVars, unitVars>>

WorkerEnded(w) == batch.workers[w].pc \in {"returned", "dropped", "threw"}

\* `await Promise.all(workers)` settles and batchConvert returns or rejects
BatchSettles ==
    /\ batch.pc = "running"
    /\ LET rejected == \E w \in 1..Len(batch.workers) : batch.workers[w].pc = "threw"
       IN /\ rejected \/ \A w \in 1..Len(batch.workers) : WorkerEnded(w)
          /\ batch' = [batch EXCEPT !.pc = IF rejected THEN "rejected" ELSE "resolved"]
    /\ UNCHANGED <<embedVars, unitVars>>

ConcurrencyOptions ==
    {ConcurrencyUnset} \cup {ConcurrencySet(n) : n \in 0..MaxConcurrencyOpt}

InitBatch ==
    /\ vault = ArbitraryVault
    /\ options = [maxEmbedDepth |-> 0, enableEmbeds |-> FALSE]
    /\ calls = [c \in Calls |-> NoCall]
    /\ lastIndex = 0
    /\ context = InitialContext
    /\ batch \in {NewBatch(inputFiles, concurrency, hasCreateEnv) :
                     inputFiles \in SeqsUpTo(FileNames, MaxInputs),
                     concurrency \in ConcurrencyOptions,
                     hasCreateEnv \in BOOLEAN}
    /\ UnitsIdle

NextBatch ==
    \/ BatchConvert
    \/ \E w \in Workers : WorkerReadSettles(w)
    \/ \E w \in Workers : WorkerEnvSettles(w)
    \/ \E w \in Workers : WorkerConvertSettles(w)
    \/ \E w \in Workers : WorkerWriteSettles(w)
    \/ BatchSettles

SpecBatch == InitBatch /\ [][NextBatch]_vars

(***************************************************************************)
(* Claims about batchConvert.                                               *)
(***************************************************************************)
Occurrences(seq, x) == Cardinality({j \in 1..Len(seq) : seq[j] = x})
FailedFiles == [j \in 1..Len(batch.failed) |-> batch.failed[j].file]
\* inputs taken from the queue and not yet recorded in success or failed
InFlight ==
    Len(batch.inputFiles) - Len(batch.queue) - Len(batch.success) - Len(batch.failed)

\* C6: when batchConvert resolves, every element of the input list is
\* recorded exactly once, either in success or (by its file name) in failed.
C6_EveryInputRecordedOnce ==
    batch.pc = "resolved" =>
        \A name \in FileNames :
            Occurrences(batch.inputFiles, name) =
                Occurrences(batch.success, name) + Occurrences(FailedFiles, name)

\* C7: every error raised for an input at the read, environment, conversion,
\* output-resolution or write step is recorded as {file, error} in failed, in
\* the order raised; no worker lets an error escape, batchConvert never
\* rejects, and a worker only ends with inputs still queued by the return at
\* the falsy-file test, never because of a failure.
C7_FailuresAreRecordedAndContained ==
    /\ batch.pc /= "unused" =>
          /\ batch.failed = batch.thrown
          /\ batch.pc /= "rejected"
          /\ \A w \in 1..Len(batch.workers) :
                /\ batch.workers[w].pc /= "threw"
                /\ batch.workers[w].pc = "returned" => batch.queue = <<>>
                /\ batch.workers[w].pc = "dropped" => batch.workers[w].file = ""
          /\ (/\ batch.pc = "resolved"
              /\ \A j \in 1..Len(batch.inputFiles) : batch.inputFiles[j] /= "")
                => batch.queue = <<>>

\* with a single worker, the first input failed to be read and the input
\* queued behind it was still converted and written
C7_Witness ==
    /\ batch.pc = "resolved"
    /\ batch.inputFiles = <<"a", "b">>
    /\ Concurrency(batch.concurrency) = 1
    /\ batch.failed = <<[file |-> "a", error |-> "read"]>>
    /\ batch.success = <<"b">>

Holders(j) ==
    {w \in 1..Len(batch.workers) :
        /\ batch.workers[w].index = j
        /\ batch.workers[w].pc \in {"read", "env", "convert", "write"}}

\* C23: under every interleaving of the workers at their awaits, an element
\* leaves the queue into the hands of exactly one worker: the queue is always
\* the untaken rest of the input list, every element in front of it was taken
\* once and the others not at all, no element is held by two workers at the
\* same time, and no element is passed twice to read, markdownToTypst or
\* write.
C23_EachElementTakenByOneWorker ==
    batch.pc /= "unused" =>
        /\ batch.queue =
              SubSeq(batch.inputFiles, Front(batch), Len(batch.inputFiles))
        /\ \A j \in 1..Len(batch.inputFiles) :
              /\ batch.uses[j].taken = IF j < Front(batch) THEN 1 ELSE 0
              /\ batch.uses[j].read <= batch.uses[j].taken
              /\ batch.uses[j].converted <= batch.uses[j].read
              /\ batch.uses[j].written <= batch.uses[j].converted
              /\ Cardinality(Holders(j)) <= 1
              /\ \A w \in Holders(j) : batch.workers[w].file = batch.inputFiles[j]

\* two workers are suspended at the same time on two elements of the same
\* name, the second worker holding the first of them and the first worker the
\* later one, after the first worker finished another element
C23_Witness ==
    /\ batch.pc = "running"
    /\ Len(batch.inputFiles) = 3
    /\ batch.inputFiles[2] = batch.inputFiles[3]
    /\ Len(batch.workers) = 2
    /\ Holders(3) = {1}
    /\ Holders(2) = {2}
    /\ batch.workers[1].pc = "write"
    /\ batch.workers[2].pc = "read"
    /\ batch.uses[1].written = 1

(***************************************************************************)
(* SpecConc: two conversions interleaved at their awaits, as two workers of *)
(* batchConvert run them, over a vault that answers deterministically.      *)
(* Conversion c converts note c with note c as its current file.            *)
(***************************************************************************)
ConcLink(i) == Path(i, "link")
PdfLink == Path(1, "pdflink")
ConcLinks == {ConcLink(i) : i \in 1..NConcMd} \cup {PdfLink}
Intro == SrcHeading(Slug("intro", <<>>))

\* a note: an optional "# Intro" heading, then an optional embed
ConcDocs ==
    {<<>>, <<Intro>>}
        \cup {<<SrcEmbed(l)>> : l \in ConcLinks}
        \cup {<<Intro, SrcEmbed(l)>> : l \in ConcLinks}

\* the vaults: link i names note i, every read of a note gives the same answer
ConcVaults ==
    {[resolve |-> [l \in ConcLinks |->
                     IF l = PdfLink THEN {ResolveOk(Path(1, "pdf"))}
                     ELSE {ResolveOk(Path(l.id, "md"))}],
      read |-> [p \in MdPathsUpTo(NConcMd) |-> {content[p]}]] :
        content \in [MdPathsUpTo(NConcMd) -> {ReadFail} \cup {ReadOk(d) : d \in ConcDocs}]}

\* the text of a note as its caller read it ("" when it could not)
ContentOf(v, p) ==
    LET answer == CHOOSE a \in v.read[p] : TRUE
    IN IF answer.ok THEN answer.content ELSE <<>>

InitConc ==
    /\ vault \in ConcVaults
    /\ options \in [maxEmbedDepth : 1..2, enableEmbeds : {TRUE}]
    /\ calls = [c \in Calls |->
                  NewCall(ContentOf(vault, Path(c, "md")), TRUE, Path(c, "md"))]
    /\ lastIndex = 0
    /\ context = InitialContext
    /\ batch = NoBatch
    /\ UnitsIdle

NextConc ==
    \E c \in Calls :
        \/ MarkdownToTypst(c)
        \/ ResolveEmbedsInTree(c)
        \/ ResolveEmbedNode(c)
        \/ ResolverSettles(c)
        \/ ReadSettles(c)
        \/ NestedResolveEmbedsInTree(c)
        \/ ReturnFromTree(c)
        \/ GenerateTop(c)

SpecConc == InitConc /\ [][NextConc]_vars

(***************************************************************************)
(* Claims about interleaved conversions and about heading labels.           *)
(***************************************************************************)
\* the one answer of a deterministic vault
TheAnswer(answers) == CHOOSE a \in answers : TRUE

\* resolveEmbedsInTree run alone and to completion from its k-th embed node:
\* m carries the module-level regex position and the context left behind by
\* the generator constructed last
RECURSIVE SoloResolve(_, _, _, _, _, _)
SoloResolve(root, embedNodes, k, depth, stack, m) ==
    IF k > Len(embedNodes)
    THEN [ok |-> TRUE, error |-> "", root |-> root, m |-> m]
    ELSE LET node == root[embedNodes[k]]
         IN IF LinkTarget(node) = EmptyLink
            THEN SoloResolve(root, embedNodes, k + 1, depth, stack, m)
            ELSE LET resolved == TheAnswer(vault.resolve[LinkTarget(node)])
                 IN IF resolved.status = "throw"
                    THEN [ok |-> FALSE, error |-> "resolver", root |-> root, m |-> m]
                    ELSE LET r == Resolved(node, resolved, options, depth, stack)
                         IN IF ~r.read
                            THEN SoloResolve([root EXCEPT ![embedNodes[k]] = r.node],
                                             embedNodes, k + 1, depth, stack, m)
                            ELSE LET answer == TheAnswer(vault.read[resolved.path])
                                     parsed == ParseDocument(answer.content, options,
                                                             m.lastIndex)
                                     args == NestedArguments(depth, stack, resolved.path)
                                     nested ==
                                         SoloResolve(parsed.root,
                                                     EmbedIndices(parsed.root, 1), 1,
                                                     args.depth, args.stack,
                                                     [m EXCEPT !.lastIndex = parsed.lastIndex])
                                     generated ==
                                         generate(nested.root,
                                                  TypstGenerator(nested.m.context,
                                                                 resolved.path))
                                     done ==
                                         [r.node EXCEPT
                                            !.data = [@ EXCEPT !.convertedTypst =
                                                                  Defined(generated.out)],
                                            !.children = <<>>]
                                 IN IF ~answer.ok
                                    THEN [ok |-> FALSE, error |-> "read",
                                          root |-> root, m |-> m]
                                    ELSE IF ~nested.ok THEN nested
                                    ELSE SoloResolve(
                                             [root EXCEPT ![embedNodes[k]] = done],
                                             embedNodes, k + 1, depth, stack,
                                             [nested.m EXCEPT !.context = generated.ctx])

\* markdownToTypst for conversion c, run alone in a freshly loaded module
Solo(c) ==
    LET parsed == ParseDocument(calls[c].markdown, options, 0)
        fresh == [lastIndex |-> parsed.lastIndex, context |-> InitialContext]
        tree == IF calls[c].hasEnv /\ options.enableEmbeds
                THEN SoloResolve(parsed.root, EmbedIndices(parsed.root, 1), 1, 0,
                                 SeedStack(calls[c].currentFile), fresh)
                ELSE [ok |-> TRUE, error |-> "", root |-> parsed.root, m |-> fresh]
        currentFile == IF calls[c].hasEnv THEN calls[c].currentFile ELSE NoPath
    IN [ok |-> tree.ok, error |-> tree.error,
        out |-> IF tree.ok
                THEN generate(tree.root,
                              TypstGenerator(tree.m.context, currentFile)).out
                ELSE <<>>]

\* C9: whatever the interleaving, a conversion that returns has produced the
\* output it produces when run alone, a conversion that rejects rejects for
\* the reason it rejects for when run alone, and the global regex is at
\* position 0 whenever a conversion is suspended.
C9_InterleavedEqualsSolo ==
    /\ lastIndex = 0
    /\ \A c \in Calls :
          /\ calls[c].pc = "done" => (Solo(c).ok /\ calls[c].out = Solo(c).out)
          /\ calls[c].pc = "rejected" =>
                (~Solo(c).ok /\ calls[c].error = Solo(c).error)

\* the labels of an output text, those of embedded documents included
RECURSIVE LabelsOf(_)
LabelsOf(text) ==
    IF text = <<>> THEN <<>>
    ELSE LET first == Head(text)
         IN (IF first.t = "heading" /\ first.label /= NoSlug
             THEN <<first.label>> ELSE <<>>)
            \o LabelsOf(first.content) \o LabelsOf(Tail(text))

\* both conversions are suspended in their resolvers at the same time:
\* conversion 2 has generated an embedded document with a labelled heading,
\* conversion 1 is waiting for adapter.read
C9_Witness ==
    /\ calls[1].pc = "resolve"
    /\ Top(1).pc = "read"
    /\ calls[2].pc = "resolve"
    /\ \E j \in EmbedsOf(calls[2].frames[1].root) :
          LET data == calls[2].frames[1].root[j].data
          IN data.convertedTypst.set /\ LabelsOf(data.convertedTypst.text) /= <<>>

\* C10: in the complete output of a conversion, the text generated for
\* embedded markdown documents included, no heading label occurs twice.
C10_NoLabelEmittedTwice ==
    \A c \in Calls :
        calls[c].pc = "done" =>
            LET labels == LabelsOf(calls[c].out)
            IN \A a, b \in 1..Len(labels) : a /= b => labels[a] /= labels[b]

(***************************************************************************)
(* SpecLabels: one generator pass over the headings of a document, with the *)
(* while loop of ensureLabel taken one iteration at a time.                 *)
(***************************************************************************)
\* most headings of a document explored by SpecLabels
MaxHeadings == 4

\* slugs of heading texts: none (a heading without text), "a", "a-2", "b"
HeadingSlugs == {NoSlug, Slug("a", <<>>), Slug("a", <<2>>), Slug("b", <<>>)}

\* a registry that forgets: context.collectedLabels.add(label) left out
NotRegistered(collectedLabels, label) == collectedLabels

\* context.collectedLabels.add(label)
Registered(collectedLabels, label) == collectedLabels \cup {label}

NewPass(headings) ==
    [pc |-> "next", headings |-> headings, base |-> NoSlug, label |-> NoSlug,
     counter |-> 2, emitted |-> <<>>]

\* generateHeading up to the while test of ensureLabel; a heading without
\* slug emits no label
GenerateHeading ==
    /\ pass.pc = "next"
    /\ pass.headings /= <<>>
    /\ LET slug == Head(pass.headings)
       IN pass' = IF slug = NoSlug
                  THEN [pass EXCEPT !.headings = Tail(@)]
                  ELSE [pass EXCEPT !.pc = "search", !.base = slug, !.label = slug,
                                    !.counter = 2]
    /\ UNCHANGED <<embedVars, batchVars, render, pipeline, splice, escape, serviceVars>>

\* one iteration of `while (context.collectedLabels.has(label))`
EnsureLabelLoop ==
    /\ pass.pc = "search"
    /\ pass.label \in context.collectedLabels
    /\ pass.counter <= MaxHeadings + 2
    /\ pass' = [pass EXCEPT !.label = Suffixed(pass.base, pass.counter),
                            !.counter = @ + 1]
    /\ UNCHANGED <<embedVars, batchVars, render, pipeline, splice, escape, serviceVars>>

\* the loop exits: the label is registered, returned and emitted
EnsureLabelReturns ==
    /\ pass.pc = "search"
    /\ pass.label \notin context.collectedLabels
    /\ context' = [context EXCEPT
                     !.collectedLabels = Registered(@, pass.label)]
    /\ pass' = [pass EXCEPT !.pc = "next", !.headings = Tail(@),
                            !.emitted = Append(@, pass.label)]
    /\ UNCHANGED <<vault, options, calls, lastIndex, batchVars,
                   render, pipeline, splice, escape, serviceVars>>

\* renderChildren has mapped every heading
PassEnds ==
    /\ pass.pc = "next"
    /\ pass.headings = <<>>
    /\ pass' = [pass EXCEPT !.pc = "done"]
    /\ UNCHANGED <<embedVars, batchVars, render, pipeline, splice, escape, serviceVars>>

InitLabels ==
    /\ ServicesIdle
    /\ vault = ArbitraryVault
    /\ options = [maxEmbedDepth |-> 0, enableEmbeds |-> FALSE]
    /\ calls = [c \in Calls |-> NoCall]
    /\ lastIndex = 0
    /\ context = TypstGenerator(InitialContext, NoPath)
    /\ batch = NoBatch
    /\ pass \in {NewPass(h) : h \in SeqsUpTo(HeadingSlugs, MaxHeadings)}
    /\ render = Idle
    /\ pipeline = Idle
    /\ splice = Idle
    /\ escape = Idle

NextLabels ==
    \/ GenerateHeading
    \/ EnsureLabelLoop
    \/ EnsureLabelReturns
    \/ PassEnds

SpecLabels == InitLabels /\ [][NextLabels]_vars

\* generation is synchronous: every step of the pass is taken
SpecLabelsFair == SpecLabels /\ WF_vars(NextLabels)

\* the labels emitted so far are pairwise different, the registry holds
\* exactly them, the search has tried fewer candidates than there are
\* registered labels, and the label the loop settles on is the one the
\* function ensureLabel computes
LabelsDistinct ==
    /\ \A a, b \in 1..Len(pass.emitted) : a /= b => pass.emitted[a] /= pass.emitted[b]
    /\ context.collectedLabels = {pass.emitted[j] : j \in 1..Len(pass.emitted)}
    /\ pass.pc = "search" =>
          /\ pass.counter <= Cardinality(context.collectedLabels) + 2
          /\ pass.label \notin context.collectedLabels =>
                pass.label = ensureLabel(context, pass.base).label

\* C11: within one generator pass every emitted label differs from all labels
\* emitted before it, for every sequence of heading slugs (a slug equal to an
\* earlier suffixed label included), and the suffix search of every heading
\* ends, so the pass ends.
C11_LabelsUniqueAndSearchEnds == [](pass.pc /= "unused" => LabelsDistinct) /\ <>(pass.pc = "done")

\* "a", "a", then a heading whose own slug is "a-2": the third label is a-2-2
C11_Witness ==
    /\ pass.pc = "done"
    /\ pass.emitted = <<Slug("a", <<>>), Slug("a", <<2>>), Slug("a", <<2, 2>>)>>

\* C22: a failure of adapter.read for a resolved markdown embed rejects
\* markdownToTypst with a message that identifies the failing stage; no
\* callback is invoked for it and no output is returned.
C22_ReadFailureRejectsNamingStage ==
    \A c \in Calls :
       (calls[c].pc = "rejected" /\ calls[c].error = "read") =>
          /\ calls[c].message = "cannot read the embedded file"
          /\ calls[c].out = <<>>
          /\ \A k \in 1..Len(calls[c].frames) :
                LET f == calls[c].frames[k]
                IN f.pc = "read" => CurrentNode(f).cb = <<>>

(***************************************************************************)
(* The states resolveEmbedNode leaves an embed node in.                     *)
(***************************************************************************)
TerminalMarkdown(node) ==
    /\ node.data.assetKind = "markdown"
    /\ node.data.convertedTypst.set
    /\ node.children = <<>>
    /\ node.cb = <<>>
TerminalAsset(node) ==
    /\ node.data.assetKind \in {"image", "pdf", "binary"}
    /\ ~node.data.convertedTypst.set
    /\ node.children = <<>>
    /\ node.cb = <<>>
\* one callback told why, data and children are as the parser built them
TerminalSkipped(node) ==
    /\ Unexpanded(node)
    /\ Len(node.cb) = 1
    /\ node.cb[1].name \in {"onMissingEmbed", "onEmbedDepthExceeded",
                            "onCircularReference"}
\* a blank link target: resolveEmbedNode returned before asking the resolver
TerminalBlank(node) ==
    /\ LinkTarget(node) = EmptyLink
    /\ Unexpanded(node)
    /\ node.cb = <<>>
Untouched(node) == Unexpanded(node) /\ node.cb = <<>>

\* the number of the claim's three terminal states a node is in
ListedStates(node) ==
    Cardinality({s \in {"markdown", "asset", "skipped"} :
                    \/ s = "markdown" /\ TerminalMarkdown(node)
                    \/ s = "asset" /\ TerminalAsset(node)
                    \/ s = "skipped" /\ TerminalSkipped(node)})

\* every embed node of a frame that the loop has left is in exactly one of
\* the given states, and every node the loop has yet to reach is untouched
FramesSettle(c, State(_)) ==
    \A k \in 1..Len(calls[c].frames) :
       LET f == calls[c].frames[k]
       IN \A j \in 1..Len(f.embedNodes) :
             /\ j < f.i => State(f.root[f.embedNodes[j]])
             /\ j > f.i => Untouched(f.root[f.embedNodes[j]])

\* C13 as stated: when markdownToTypst has returned normally, every embed node
\* the resolver visited is in exactly one of: markdown (convertedTypst stored,
\* children empty), image/pdf/binary (children empty), skipped as missing,
\* depth-exceeded or cycle (data and children unchanged).
C13_VisitedNodesInListedState ==
    \A c \in Calls :
       (Resolving(c) /\ calls[c].pc = "done") =>
          \A j \in EmbedsOf(calls[c].root) : ListedStates(calls[c].root[j]) = 1

\* C13 amended: every visited embed node ends in exactly one of the three
\* listed states or, when its link target is blank, untouched with no
\* callback; nodes of embedded trees likewise when their loop is over; no
\* node is resolved twice (a node the loop has not reached is untouched, a
\* skipped node logged one callback).
C13_VisitedNodesTerminal ==
    \A c \in Calls :
       Resolving(c) =>
          /\ FramesSettle(c, LAMBDA n : (ListedStates(n) = 1) /= TerminalBlank(n))
          /\ calls[c].pc \in {"generate", "done"} =>
                \A j \in EmbedsOf(calls[c].root) :
                   (ListedStates(calls[c].root[j]) = 1) /= TerminalBlank(calls[c].root[j])

\* a conversion returned whose tree holds an expanded markdown embed and an
\* embed with a blank target
C13_Witness ==
    /\ Resolving(1)
    /\ calls[1].pc = "done"
    /\ \E j \in EmbedsOf(calls[1].root) : TerminalMarkdown(calls[1].root[j])
    /\ \E j \in EmbedsOf(calls[1].root) : TerminalBlank(calls[1].root[j])

(***************************************************************************)
(* SpecRender: one call of generateList or formatListItem on a tree, from   *)
(* any context a caller may be in.                                          *)
(***************************************************************************)
\* deepest nesting of lists in the trees explored by SpecRender
MaxNesting == 2

\* `value: undefined`: a text node without a string value
SrcUndefined == [k |-> "undefined", link |-> EmptyLink, slug |-> NoSlug]

ParentNode(type, children) ==
    [type |-> type, slug |-> NoSlug, value |-> <<>>, data |-> NoData,
     children |-> children, cb |-> <<>>]
ParagraphNode(children) == ParentNode("paragraph", children)
ListItemNode(children) == ParentNode("listItem", children)
ListNode(children) == ParentNode("list", children)
BlockquoteNode(children) == ParentNode("blockquote", children)

\* an embed of note 2 as resolveEmbedNode leaves it when note 2 holds `markdown`:
\* the text is that of a generator of its own
ExpandedEmbed(markdown) ==
    LET path == Path(2, "md")
        embedded == generate(markdown, TypstGenerator(InitialContext, path)).out
    IN [EmbedNode(path) EXCEPT
          !.data = [@ EXCEPT !.assetPath = path, !.depth = 1,
                             !.assetKind = "markdown",
                             !.convertedTypst = Defined(embedded)]]

\* what a paragraph may hold: text, a text node without value, an embedded
\* note that is one paragraph of text
Inlines ==
    {TextNode(<<SrcText>>), TextNode(<<SrcUndefined>>),
     ExpandedEmbed(<<ParagraphNode(<<TextNode(<<SrcText>>)>>)>>)}

Paragraphs == {ParagraphNode(<<x>>) : x \in Inlines}

\* lists nested at most n deep whose paragraphs are taken from `paragraphs`,
\* and the blocks an item of such a list holds
RECURSIVE ListsUpTo(_, _)
ListsUpTo(n, paragraphs) ==
    IF n = 0 THEN {}
    ELSE LET inner == ListsUpTo(n - 1, paragraphs)
             blocks == paragraphs \cup {BlockquoteNode(<<q>>) : q \in paragraphs}
                           \cup inner
             items == {ListItemNode(<<b>>) : b \in blocks}
                          \cup {ListItemNode(<<q, r>>) : q \in paragraphs,
                                                         r \in paragraphs \cup inner}
         IN {ListNode(<<i>>) : i \in items}
                \cup {ListNode(<<ListItemNode(<<q>>), ListItemNode(<<r>>)>>) :
                         q \in paragraphs, r \in paragraphs}

RenderInputs ==
    LET lists == ListsUpTo(MaxNesting, Paragraphs)
    IN lists \cup {l.children[1] : l \in lists}

\* the contexts a list or a list item is entered in
EntryContexts ==
    {[TypstGenerator(InitialContext, Path(1, "md")) EXCEPT
         !.listDepth = d, !.inListItem = f] : d \in 0..1, f \in BOOLEAN}

\* the generator renders a list (visitNode, then generateList) or a list item
\* (formatListItem), up to the return or to the exception that leaves it
RenderList ==
    /\ render.pc = "call"
    /\ LET result == IF render.node.type = "list"
                     THEN renderChildren(<<render.node>>, 1, context)
                     ELSE formatListItem(render.node, context)
       IN /\ render' = [render EXCEPT !.pc = IF result.threw THEN "threw" ELSE "returned",
                                      !.out = result.out]
          /\ context' = result.ctx
    /\ UNCHANGED <<vault, options, calls, lastIndex, batchVars,
                   pass, pipeline, splice, escape, serviceVars>>

InitRender ==
    /\ ServicesIdle
    /\ vault = ArbitraryVault
    /\ options = [maxEmbedDepth |-> 0, enableEmbeds |-> FALSE]
    /\ calls = [c \in Calls |-> NoCall]
    /\ lastIndex = 0
    /\ context \in EntryContexts
    /\ batch = NoBatch
    /\ pass = Idle
    /\ render \in {[pc |-> "call", node |-> n, entry |-> context, out |-> <<>>] :
                      n \in RenderInputs}
    /\ pipeline = Idle
    /\ splice = Idle
    /\ escape = Idle

NextRender == RenderList

SpecRender == InitRender /\ [][NextRender]_vars

(***************************************************************************)
(* Claims about list rendering.                                             *)
(***************************************************************************)
\* C12: when generateList or formatListItem is over, by return or by an
\* exception thrown while a descendant was rendered, context.listDepth and
\* context.inListItem are what they were on entry.
C12_ListContextRestored ==
    render.pc \in {"returned", "threw"} =>
        /\ context.listDepth = render.entry.listDepth
        /\ context.inListItem = render.entry.inListItem

\* the #parbreak() tokens of a text, those inside quotes and items included
RECURSIVE Parbreaks(_)
Parbreaks(text) ==
    IF text = <<>> THEN 0
    ELSE (IF Head(text).t = "parbreak" THEN 1 ELSE 0)
         + Parbreaks(Head(text).content) + Parbreaks(Tail(text))

\* the texts of the list items of a text, at every depth
RECURSIVE ItemsOf(_)
ItemsOf(text) ==
    IF text = <<>> THEN {}
    ELSE (IF Head(text).t = "item" THEN {Head(text).content} ELSE {})
         \cup ItemsOf(Head(text).content) \cup ItemsOf(Tail(text))

\* C19: the text generated for a list item holds no #parbreak(), at any
\* nesting depth and whatever the item holds.
C19_NoParbreakInListItem ==
    render.pc = "returned" =>
        \A item \in ItemsOf(render.out) : Parbreaks(item) = 0

(***************************************************************************)
(* The text plugins of createProcessor.  A text is a sequence of tokens,    *)
(* each with the position it has in the source text:                        *)
(*   "%%"     a comment delimiter        "embed"  ![[x]]                     *)
(*   "wiki"   [[x]]                      "tag"    #t                         *)
(*   "=="     a highlight delimiter      "ref"    ^id                        *)
(*   "text"   a plain word               "sp"     a blank                    *)
(***************************************************************************)
\* longest source text explored
MaxTokens == 4

TokenKinds == {"%%", "embed", "wiki", "tag", "==", "ref", "text", "sp"}

PluginNode(type, value, children) ==
    [type |-> type, value |-> value, children |-> children]
PluginText(value) == PluginNode("text", value, <<>>)

\* a regular expression: the token it starts with; whether a later token of
\* the same kind closes it, lazily, with at least `inner` tokens between;
\* whether it carries TAG_PATTERN's lookbehind and lookahead; the g flag
RegExp(tok, closed, inner, guarded, global) ==
    [tok |-> tok, closed |-> closed, inner |-> inner, guarded |-> guarded,
     global |-> global]
EMBED_PATTERN == RegExp("embed", FALSE, 0, FALSE, TRUE)
COMMENT_PATTERN == RegExp("%%", TRUE, 0, FALSE, TRUE)
WIKI_LINK_PATTERN == RegExp("wiki", FALSE, 0, FALSE, TRUE)
TAG_PATTERN == RegExp("tag", FALSE, 0, TRUE, TRUE)
HIGHLIGHT_PATTERN == RegExp("==", TRUE, 1, FALSE, TRUE)
BLOCK_REF_PATTERN == RegExp("ref", FALSE, 0, FALSE, TRUE)

\* the tokens that close a match opened at token j
Closers(value, pattern, j) ==
    {e \in (j + 1 + pattern.inner)..Len(value) : value[e].k = pattern.tok}

\* pattern.exec(value) of a global pattern whose lastIndex is li: the first
\* match at or after li, as 0-based start and length
exec(value, pattern, li) ==
    LET starts == {j \in (li + 1)..Len(value) :
                      /\ value[j].k = pattern.tok
                      /\ pattern.closed => Closers(value, pattern, j) /= {}
                      /\ pattern.guarded =>
                            /\ j = 1 \/ value[j - 1].k = "sp"
                            /\ j = Len(value) \/ value[j + 1].k /= "wiki"}
    IN IF starts = {} THEN [found |-> FALSE, index |-> 0, length |-> 0]
       ELSE LET j == MinOf(starts)
                e == IF pattern.closed THEN MinOf(Closers(value, pattern, j)) ELSE j
            IN [found |-> TRUE, index |-> j - 1, length |-> e - j + 1]

\* builder(match): the nodes built for the matched tokens.  "none" is the
\* builder of remarkComments, () => []; "array" returns its node in an array
builder(kind, matched) ==
    IF kind = "none" THEN <<>>
    ELSE IF kind = "obsidianHighlight"
    THEN <<PluginNode(kind, matched,
                      <<PluginText(SubSeq(matched, 2, Len(matched) - 1))>>)>>
    ELSE IF kind = "array" THEN <<PluginNode("wikiLink", matched, <<>>)>>
    ELSE <<PluginNode(kind, matched, <<>>)>>

\* the while loop of replaceInTextNode: the replacements and the local
\* lastIndex it ends with
RECURSIVE replacementsFrom(_, _, _, _, _)
replacementsFrom(value, pattern, kind, last, replacements) ==
    LET match == exec(value, pattern, last)
    IN IF ~match.found
       THEN [replacements |-> replacements, lastIndex |-> last]
       ELSE LET before == IF match.index > last
                          THEN <<PluginText(SubSeq(value, last + 1, match.index))>>
                          ELSE <<>>
                matched == SubSeq(value, match.index + 1, match.index + match.length)
            IN replacementsFrom(value, pattern, kind, match.index + match.length,
                                replacements \o before \o builder(kind, matched))

\* replaceInTextNode(parent, index, pattern, builder): what it returns or
\* that it throws, and parent.children as it leaves them
replaceInTextNode(children, index, pattern, kind) ==
    IF index < 0 \/ index >= Len(children) \/ children[index + 1].type /= "text"
    THEN [result |-> "false", children |-> children]
    ELSE IF ~pattern.global
    THEN [result |-> "throw", children |-> children]
    ELSE LET value == children[index + 1].value
             loop == replacementsFrom(value, pattern, kind, 0, <<>>)
             trailing == IF loop.lastIndex < Len(value)
                         THEN <<PluginText(SubSeq(value, loop.lastIndex + 1, Len(value)))>>
                         ELSE <<>>
         IN IF loop.replacements = <<>>
            THEN [result |-> "false", children |-> children]
            ELSE [result |-> "true",
                  children |-> SubSeq(children, 1, index)
                                  \o loop.replacements \o trailing
                                  \o SubSeq(children, index + 2, Len(children))]

\* textNode.value.includes(...) of a plugin's visitor
Mentions(value, toks) == \E j \in 1..Len(value) : value[j].k \in toks

\* visit(tree, "text", visitor) below one parent: the visitor returns
\* nothing, so the walk goes on at index + 1 of the children as they are
\* then; the children of a node that is no text are walked in turn
RECURSIVE visit(_, _, _, _, _)
visit(children, i, pattern, kind, hints) ==
    IF i > Len(children) THEN children
    ELSE LET node == children[i]
         IN IF node.type = "text"
            THEN IF Mentions(node.value, hints)
                 THEN visit(replaceInTextNode(children, i - 1, pattern, kind).children,
                            i + 1, pattern, kind, hints)
                 ELSE visit(children, i + 1, pattern, kind, hints)
            ELSE visit([children EXCEPT
                           ![i].children = visit(@, 1, pattern, kind, hints)],
                       i + 1, pattern, kind, hints)

\* the source texts: no plain word straight after a tag or a block
\* reference (it would be part of their name), no two highlight delimiters
\* in a row
Positioned(kinds) == [j \in 1..Len(kinds) |-> [k |-> kinds[j], pos |-> j]]
SourceTexts ==
    {Positioned(kinds) : kinds \in
        {w \in SeqsUpTo(TokenKinds, MaxTokens) :
            /\ w /= <<>>
            /\ \A j \in 1..(Len(w) - 1) :
                  /\ w[j] \in {"tag", "ref"} => w[j + 1] /= "text"
                  /\ w[j] = "==" => w[j + 1] /= "=="}}

\* one plugin of the chain runs over the tree
Plugin(stage, next, pattern, kind, hints) ==
    /\ pipeline.pc = stage
    /\ pipeline' = [pipeline EXCEPT
                      !.pc = next,
                      !.children = visit(@, 1, pattern, kind, hints)]
    /\ UNCHANGED <<embedVars, batchVars, pass, render, splice, escape, serviceVars>>

\* the plugins in the order createProcessor registers them, all enabled
\* (remarkCallouts, between wiki links and tags, rewrites block quotes only)
\* "![[" occurs in an embed only, and an embed holds "]]" as well
remarkEmbeds == Plugin("embeds", "comments", EMBED_PATTERN, "embedDocument", {"embed"})
remarkComments == Plugin("comments", "wikilinks", COMMENT_PATTERN, "none", {"%%"})
remarkWikiLinks == Plugin("wikilinks", "tags", WIKI_LINK_PATTERN, "wikiLink", {"wiki", "embed"})
remarkTags == Plugin("tags", "highlights", TAG_PATTERN, "obsidianTag", {"tag"})
remarkHighlights ==
    Plugin("highlights", "blockrefs", HIGHLIGHT_PATTERN, "obsidianHighlight", {"=="})
remarkBlockRefs == Plugin("blockrefs", "done", BLOCK_REF_PATTERN, "obsidianBlockRef", {"ref"})

InitPlugins ==
    /\ ServicesIdle
    /\ vault = ArbitraryVault
    /\ options = [maxEmbedDepth |-> 0, enableEmbeds |-> TRUE]
    /\ calls = [c \in Calls |-> NoCall]
    /\ lastIndex = 0
    /\ context = InitialContext
    /\ batch = NoBatch
    /\ pass = Idle
    /\ render = Idle
    /\ pipeline \in {[pc |-> "embeds", source |-> text, children |-> <<PluginText(text)>>] :
                        text \in SourceTexts}
    /\ splice = Idle
    /\ escape = Idle

NextPlugins ==
    \/ remarkEmbeds
    \/ remarkComments
    \/ remarkWikiLinks
    \/ remarkTags
    \/ remarkHighlights
    \/ remarkBlockRefs

SpecPlugins == InitPlugins /\ [][NextPlugins]_vars

(***************************************************************************)
(* Claims about comments.                                                   *)
(***************************************************************************)
\* the source position lies inside a %%...%% span of the source text
InComment(source, p) ==
    /\ source[p].k /= "%%"
    /\ Cardinality({q \in 1..(p - 1) : source[q].k = "%%"}) % 2 = 1
    /\ \E q \in (p + 1)..Len(source) : source[q].k = "%%"

\* the nodes of a tree other than text, at every depth
RECURSIVE TypedNodes(_)
TypedNodes(children) ==
    IF children = <<>> THEN {}
    ELSE (IF Head(children).type = "text" THEN {} ELSE {Head(children)})
         \cup TypedNodes(Head(children).children) \cup TypedNodes(Tail(children))

RECURSIVE TextNodes(_)
TextNodes(children) ==
    IF children = <<>> THEN {}
    ELSE (IF Head(children).type = "text" THEN {Head(children)} ELSE {})
         \cup TextNodes(Head(children).children) \cup TextNodes(Tail(children))

\* C14: with all plugins enabled, an embed, wiki-link, tag, highlight or
\* block-ref pattern that lies inside a %%...%% comment never becomes a typed
\* node (so a commented-out embed is never handed to the resolver).
C14_NoTypedNodeFromComment ==
    \A node \in TypedNodes(pipeline.children) :
       \E j \in 1..Len(node.value) : ~InComment(pipeline.source, node.value[j].pos)

\* C15: once remarkComments has run, no text node holds a %%...%% span that
\* lay wholly inside it, wherever in the node the span was.
C15_NoCommentLeftInTextNode ==
    pipeline.pc \in {"wikilinks", "tags", "highlights", "blockrefs", "done"} =>
        \A node \in TextNodes(pipeline.children) :
           Cardinality({j \in 1..Len(node.value) : node.value[j].k = "%%"}) < 2

(***************************************************************************)
(* SpecSplice: one call of replaceInTextNode, with any child at the index,  *)
(* patterns with and without the g flag, and builders that return a node,   *)
(* an array with a node, or an empty array.                                 *)
(***************************************************************************)
\* longest text value handed to replaceInTextNode
MaxValue == 3

SpliceTexts ==
    {PluginText(Positioned(kinds)) :
        kinds \in SeqsUpTo({"%%", "wiki", "text"}, MaxValue) \ {<<>>}}
OtherNode == PluginNode("inlineCode", <<>>, <<>>)
SpliceParents ==
    {<<OtherNode>>} \cup {<<t>> : t \in SpliceTexts}
        \cup {<<t, OtherNode>> : t \in SpliceTexts}
        \cup {<<OtherNode, t>> : t \in SpliceTexts}
SplicePatterns ==
    {[p EXCEPT !.global = g] : p \in {COMMENT_PATTERN, WIKI_LINK_PATTERN}, g \in BOOLEAN}
SpliceBuilders == {"wikiLink", "array", "none"}

\* replaceInTextNode(parent, index, pattern, builder) runs to its end
CallReplaceInTextNode ==
    /\ splice.pc = "call"
    /\ LET r == replaceInTextNode(splice.children, splice.index, splice.pattern,
                                  splice.builder)
       IN splice' = [splice EXCEPT !.pc = "returned", !.result = r.result,
                                   !.after = r.children]
    /\ UNCHANGED <<embedVars, batchVars, pass, render, pipeline, escape, serviceVars>>

InitSplice ==
    /\ ServicesIdle
    /\ vault = ArbitraryVault
    /\ options = [maxEmbedDepth |-> 0, enableEmbeds |-> TRUE]
    /\ calls = [c \in Calls |-> NoCall]
    /\ lastIndex = 0
    /\ context = InitialContext
    /\ batch = NoBatch
    /\ pass = Idle
    /\ render = Idle
    /\ pipeline = Idle
    /\ splice \in {[pc |-> "call", children |-> c, index |-> i, pattern |-> p,
                    builder |-> b, result |-> "", after |-> <<>>] :
                      c \in SpliceParents, i \in 0..2, p \in SplicePatterns,
                      b \in SpliceBuilders}
    /\ escape = Idle

NextSplice == CallReplaceInTextNode

SpecSplice == InitSplice /\ [][NextSplice]_vars

(***************************************************************************)
(* Claims about replaceInTextNode.                                          *)
(***************************************************************************)
\* the indexed child is a text node
OnText ==
    /\ splice.index < Len(splice.children)
    /\ splice.children[splice.index + 1].type = "text"

\* C16: replaceInTextNode returns true exactly when the pattern matched at
\* least once, and returns false leaving the parent's children unchanged
\* exactly when it matched nowhere, whatever the builder returns.
C16_TrueExactlyWhenMatched ==
    (splice.pc = "returned" /\ OnText /\ splice.pattern.global) =>
        LET matched == exec(splice.children[splice.index + 1].value,
                            splice.pattern, 0).found
        IN /\ splice.result = "true" <=> matched
           /\ (splice.result = "false" /\ splice.after = splice.children) <=> ~matched

\* C17: every call with a pattern that lacks the g flag throws and leaves
\* the parent as it was, whatever the indexed child is.
C17_NonGlobalAlwaysThrows ==
    (splice.pc = "returned" /\ ~splice.pattern.global) =>
        /\ splice.result = "throw"
        /\ splice.after = splice.children

(***************************************************************************)
(* escapeTypstText.  A text is a sequence of pieces: the characters "[",    *)
(* "x", "]", "0", "1", and the strings "PRE" (__CHECKBOX_) and "US" (__).   *)
(* The output also holds "BS" (a backslash), "REST" (CHECKBOX_, what is     *)
(* left of a "PRE" whose first two underscores closed a placeholder) and    *)
(* "UNDEF" (the text `undefined`).                                          *)
(***************************************************************************)
\* longest text handed to escapeTypstText
MaxChars == 6

Pieces == {"[", "x", "]", "0", "1", "PRE", "US"}
Digits == <<"0", "1", "2", "3", "4", "5", "6", "7", "8", "9">>
IsDigit(piece) == \E d \in 1..10 : Digits[d] = piece
DigitValue(piece) == (CHOOSE d \in 1..10 : Digits[d] = piece) - 1

\* CHEQ_CHECKBOX_PATTERN matches at piece j
CheckboxAt(text, j) ==
    /\ j + 2 <= Len(text)
    /\ text[j] = "[" /\ text[j + 1] = "x" /\ text[j + 2] = "]"

\* text.replace(CHEQ_CHECKBOX_PATTERN, ...): every marker becomes
\* __CHECKBOX_<index>__ and is pushed on checkboxPlaceholders
RECURSIVE Protect(_, _, _)
Protect(text, j, placeholders) ==
    IF j > Len(text) THEN [out |-> <<>>, checkboxPlaceholders |-> placeholders]
    ELSE IF CheckboxAt(text, j)
    THEN LET rest == Protect(text, j + 3, Append(placeholders, SubSeq(text, j, j + 2)))
         IN [rest EXCEPT !.out = <<"PRE", Digits[Len(placeholders) + 1], "US">> \o @]
    ELSE LET rest == Protect(text, j + 1, placeholders)
         IN [rest EXCEPT !.out = <<text[j]>> \o @]

\* protected_.replace(ESCAPE_PATTERN, "\\$1")
RECURSIVE Escape(_)
Escape(text) ==
    IF text = <<>> THEN <<>>
    ELSE (IF Head(text) \in {"[", "]"} THEN <<"BS", Head(text)>> ELSE <<Head(text)>>)
         \o Escape(Tail(text))

\* the pieces matched by (\d+) from piece j on
RECURSIVE DigitsFrom(_, _)
DigitsFrom(text, j) ==
    IF j <= Len(text) /\ IsDigit(text[j]) THEN <<text[j]>> \o DigitsFrom(text, j + 1)
    ELSE <<>>

\* parseInt(index)
RECURSIVE ParseInt(_, _)
ParseInt(digits, acc) ==
    IF digits = <<>> THEN acc
    ELSE ParseInt(Tail(digits), 10 * acc + DigitValue(Head(digits)))

\* escaped.replace(/__CHECKBOX_(\d+)__/g, ...): the closing __ is a "US" or
\* the first two characters of a "PRE"; an index with no placeholder gives
\* the text `undefined`
RECURSIVE Restore(_, _, _)
Restore(text, j, placeholders) ==
    IF j > Len(text) THEN <<>>
    ELSE LET digits == DigitsFrom(text, j + 1)
             close == j + 1 + Len(digits)
         IN IF /\ text[j] = "PRE"
               /\ digits /= <<>>
               /\ close <= Len(text)
               /\ text[close] \in {"US", "PRE"}
            THEN LET index == ParseInt(digits, 0)
                     restored == IF index < Len(placeholders)
                                 THEN placeholders[index + 1]
                                 ELSE <<"UNDEF">>
                     left == IF text[close] = "PRE" THEN <<"REST">> ELSE <<>>
                 IN restored \o left \o Restore(text, close + 1, placeholders)
            ELSE <<text[j]>> \o Restore(text, j + 1, placeholders)

escapeTypstText(text) ==
    LET protected == Protect(text, 1, <<>>)
        escaped == Escape(protected.out)
    IN Restore(escaped, 1, protected.checkboxPlaceholders)

\* escapeTypstText(text) returns
CallEscapeTypstText ==
    /\ escape.pc = "call"
    /\ escape' = [escape EXCEPT !.pc = "returned", !.out = escapeTypstText(escape.text)]
    /\ UNCHANGED <<embedVars, batchVars, pass, render, pipeline, splice, serviceVars>>

InitEscape ==
    /\ ServicesIdle
    /\ vault = ArbitraryVault
    /\ options = [maxEmbedDepth |-> 0, enableEmbeds |-> TRUE]
    /\ calls = [c \in Calls |-> NoCall]
    /\ lastIndex = 0
    /\ context = InitialContext
    /\ batch = NoBatch
    /\ pass = Idle
    /\ render = Idle
    /\ pipeline = Idle
    /\ splice = Idle
    /\ escape \in {[pc |-> "call", text |-> t, out |-> <<>>] :
                      t \in SeqsUpTo(Pieces, MaxChars)}

NextEscape == CallEscapeTypstText

SpecEscape == InitEscape /\ [][NextEscape]_vars

(***************************************************************************)
(* Claims about escapeTypstText.                                            *)
(***************************************************************************)
\* the places of a text where a checkbox marker stands with no backslash
\* before it
Markers(text) ==
    {j \in 1..Len(text) : CheckboxAt(text, j) /\ (j = 1 \/ text[j - 1] /= "BS")}

\* a text without its backslashes
WithoutBackslashes(text) == SelectSeq(text, LAMBDA piece : piece /= "BS")

\* C30: escapeTypstText only inserts backslashes: its output with the
\* backslashes deleted is the input, for every input, a text holding a
\* literal __CHECKBOX_n__ included.
C30_OnlyBackslashesInserted ==
    escape.pc = "returned" => WithoutBackslashes(escape.out) = escape.text

\* C18: every checkbox marker of the input appears in the output verbatim,
\* with no backslash inserted, in the original order.
C18_CheckboxMarkersKept ==
    escape.pc = "returned" =>
        Cardinality(Markers(escape.out)) >= Cardinality(Markers(escape.text))

(***************************************************************************)
(* Asset paths.  A path is the sequence of its "/"-separated parts; a file  *)
(* is the part that ends its path, a folder is the part Folder.             *)
(***************************************************************************)
Folder == Path(0, "folder")
ParentFolder == Path(0, "..")

\* where the notes and the asset of SpecConc may lie in the vault: each in
\* the vault's root or in the folder
VaultFiles == MdPathsUpTo(NConcMd) \cup {Path(1, "pdf")}
Layouts == [VaultFiles -> {<<>>, <<Folder>>}]
VaultPath(layout, file) ==
    (IF file \in VaultFiles THEN layout[file] ELSE <<>>) \o <<file>>

\* calculateRelativePath(from, to): the number of "../" and the parts after
\* them
calculateRelativePath(from, to) ==
    LET fromParts == SubSeq(from, 1, Len(from) - 1)
        minLength == IF Len(fromParts) < Len(to) THEN Len(fromParts) ELSE Len(to)
        commonLength ==
            Cardinality({n \in 1..minLength : \A j \in 1..n : fromParts[j] = to[j]})
    IN [upLevels |-> Len(fromParts) - commonLength,
        downPath |-> SubSeq(to, commonLength + 1, Len(to))]

\* the file a relative path denotes for a reader in the folder `dir`
ResolveAgainst(dir, relative) ==
    IF relative.upLevels <= Len(dir)
    THEN SubSeq(dir, 1, Len(dir) - relative.upLevels) \o relative.downPath
    ELSE <<ParentFolder>> \o relative.downPath

\* the #image and #link tokens of a text, those of embedded documents included
RECURSIVE AssetTokens(_)
AssetTokens(text) ==
    IF text = <<>> THEN {}
    ELSE (IF Head(text).t \in {"image", "link"} THEN {Head(text)} ELSE {})
         \cup AssetTokens(Head(text).content) \cup AssetTokens(Tail(text))

\* C20: every asset path in the final output, in the top-level document and
\* in embedded markdown documents alike, denotes the asset's vault path when
\* resolved against the folder of the top-level output file, wherever the
\* files lie in the vault.
C20_AssetPathsRelativeToTopLevel ==
    \A c \in Calls :
       calls[c].pc = "done" =>
          \A layout \in Layouts :
             \A token \in AssetTokens(calls[c].out) :
                LET top == VaultPath(layout, calls[c].currentFile)
                    emitted == calculateRelativePath(VaultPath(layout, token.from),
                                                     VaultPath(layout, token.to))
                IN ResolveAgainst(SubSeq(top, 1, Len(top) - 1), emitted)
                      = VaultPath(layout, token.to)

(***************************************************************************)
(* executeSandbox.  The body of transform is a sequence of identifiers, each *)
(* used in turn (a call, or a property read or written).  The script is the  *)
(* body of a function made by the AsyncFunction constructor: its scope is    *)
(* the function's own and, behind it, the global scope of the host.          *)
(***************************************************************************)
\* longest transform body explored, in identifiers used
MaxRefs == 3

\* what the host's global scope binds, and to which host object
HostGlobals ==
    [app |-> "application", window |-> "global object", global |-> "global object",
     globalThis |-> "global object", fetch |-> "network", require |-> "filesystem"]

\* the names the script body may use
Identifiers == DOMAIN HostGlobals \cup {"content", "convertToTypst", "this"}

\* what an identifier denotes in the body: the two parameters; undefined for
\* the three constants declared before the script and for `this` of a strict
\* function called without a receiver; the host's binding for any other name
Denotes(identifier) ==
    IF identifier \in {"content", "convertToTypst"} THEN "argument"
    ELSE IF identifier \in {"app", "window", "global", "this"} THEN "undefined"
    ELSE HostGlobals[identifier]

\* transform(content) from its j-th identifier on: using undefined throws a
\* TypeError, which ends the script
RECURSIVE transform(_, _, _)
transform(body, j, reached) ==
    IF j > Len(body) THEN [threw |-> FALSE, reached |-> reached]
    ELSE LET denoted == Denotes(body[j])
         IN IF denoted = "undefined" THEN [threw |-> TRUE, reached |-> reached]
            ELSE IF denoted = "argument" THEN transform(body, j + 1, reached)
            ELSE transform(body, j + 1, reached \cup {denoted})

\* executeSandbox(scriptCode, content, convertFn) runs to its end: it returns
\* what transform returned, or rejects with "Script execution failed: ..."
ExecuteSandbox ==
    /\ sandbox.pc = "call"
    /\ LET run == transform(sandbox.script, 1, {})
       IN sandbox' = [sandbox EXCEPT
                         !.pc = IF run.threw THEN "rejected" ELSE "returned",
                         !.reached = run.reached]
    /\ UNCHANGED <<embedVars, batchVars, pass, render, pipeline, splice, escape,
                   manager, cache, renderer>>

InitSandbox ==
    /\ vault = ArbitraryVault
    /\ options = [maxEmbedDepth |-> 0, enableEmbeds |-> TRUE]
    /\ calls = [c \in Calls |-> NoCall]
    /\ lastIndex = 0
    /\ context = InitialContext
    /\ batch = NoBatch
    /\ pass = Idle
    /\ render = Idle
    /\ pipeline = Idle
    /\ splice = Idle
    /\ escape = Idle
    /\ sandbox \in {[pc |-> "call", script |-> body, reached |-> {}] :
                       body \in SeqsUpTo(Identifiers, MaxRefs)}
    /\ manager = Idle
    /\ cache = Idle
    /\ renderer = Idle

NextSandbox == ExecuteSandbox

SpecSandbox == InitSandbox /\ [][NextSandbox]_vars

\* C21: a script run by executeSandbox reaches nothing but its content
\* argument and the injected convertToTypst: no host global (application
\* object, window or global object, network, filesystem).
C21_ScriptReachesNoHostGlobal ==
    sandbox.pc \in {"returned", "rejected"} => sandbox.reached = {}

(***************************************************************************)
(* BaseContentManager.  A content name is the sequence of its parts: "SP" a  *)
(* blank, "EXT" the file extension, "SLASH" a path separator, anything else  *)
(* a word.  Every adapter call is performed by the host at some moment after *)
(* it was issued and the caller resumes with its result at a later one.      *)
(***************************************************************************)
\* calls in flight at the same time, and calls made in all
MaxOps == 2
MaxManagerCalls == 3

Absent == "absent"
DefaultName == <<"default">>
DefaultContent == "DEFAULT"
UserContents == {"x"}
Directory == <<"DIR">>

\* the raw names handed to the manager's methods
RawNames ==
    {<<>>, <<"a">>, <<"SP", "default", "EXT">>, <<"default", "EXT", "EXT">>,
     <<"a", "SLASH", "b">>}

\* String.prototype.trim
RECURSIVE Trim(_)
Trim(name) ==
    IF name = <<>> THEN name
    ELSE IF Head(name) = "SP" THEN Trim(Tail(name))
    ELSE IF name[Len(name)] = "SP" THEN Trim(SubSeq(name, 1, Len(name) - 1))
    ELSE name

normalizeContentName(contentName) ==
    LET trimmed == Trim(contentName)
    IN IF trimmed /= <<>> /\ trimmed[Len(trimmed)] = "EXT"
       THEN SubSeq(trimmed, 1, Len(trimmed) - 1)
       ELSE trimmed

\* the message validateContentName throws with, "" when it returns
validateContentName(contentName) ==
    IF contentName = <<>> THEN "Content name cannot be empty"
    ELSE IF \E j \in 1..Len(contentName) : contentName[j] = "SLASH"
    THEN "Content name cannot contain path separators"
    ELSE ""

\* the names a file or a cache entry can be kept under; getContentPath sends
\* different names to different paths
ContentNames ==
    ({normalizeContentName(raw) : raw \in RawNames}
        \cup {normalizeContentName(normalizeContentName(raw)) : raw \in RawNames}
        \cup {DefaultName}) \ {<<>>}

NoOp == [pc |-> "none"]
NoIo == [kind |-> "none", path |-> <<>>, data |-> Absent, done |-> FALSE, value |-> Absent]

\* a method call just entered
NewOp(op, name) ==
    [pc |-> "entered", op |-> op, asked |-> name, name |-> name, target |-> <<>>,
     content |-> Absent, io |-> NoIo, result |-> Absent, served |-> <<>>,
     error |-> "", afterDelete |-> FALSE]

\* the call suspends on an adapter method
Issue(m, i, pc, kind, path, data) ==
    [m EXCEPT !.ops[i].pc = pc,
              !.ops[i].io = [kind |-> kind, path |-> path, data |-> data,
                             done |-> FALSE, value |-> Absent]]

\* the call is over: its locals are gone, its outcome stays (a value only
\* for loadContent, the other methods return nothing)
Settle(op, pc, error) ==
    LET over == [op EXCEPT !.pc = pc, !.error = error, !.io = NoIo, !.name = <<>>,
                           !.target = <<>>, !.content = Absent]
    IN IF op.op = "loadContent" THEN over
       ELSE [over EXCEPT !.asked = <<>>, !.result = Absent, !.served = <<>>]
Return(m, i) == [m EXCEPT !.ops[i] = Settle(@, "returned", "")]
Throw(m, i, error) == [m EXCEPT !.ops[i] = Settle(@, "threw", error)]

\* ensureDirectory(), then what follows it at `pc`
EnsureDirectory(m, i, pc) == Issue(m, i, pc, "exists", Directory, Absent)

\* saveContent(contentName, content) up to its first await
SaveContent(m, i, contentName, content) ==
    LET normalized == normalizeContentName(contentName)
        invalid == validateContentName(normalized)
        entered == [m EXCEPT !.ops[i].name = normalized, !.ops[i].content = content]
    IN IF invalid /= "" THEN Throw(m, i, invalid)
       ELSE EnsureDirectory(entered, i, "save.dirExists")

\* loadContent has its value: it returns it, or copyContent goes on to save it
Loaded(m, i, value, served) ==
    LET kept == [m EXCEPT !.ops[i].result = value, !.ops[i].served = served]
    IN IF m.ops[i].op = "copyContent"
       THEN SaveContent(kept, i, m.ops[i].target, value)
       ELSE Return(kept, i)

\* loadContent(contentName) up to its first await or its return from the cache
LoadContent(m, i, contentName) ==
    LET raw == normalizeContentName(contentName)
        normalized == IF raw = <<>> THEN DefaultName ELSE raw
        entered == [m EXCEPT !.ops[i].name = normalized]
    IN IF m.cache[normalized] /= Absent
       THEN Loaded(entered, i, m.cache[normalized], normalized)
       ELSE Issue(entered, i, "load.exists", "exists", normalized, Absent)

\* deleteContent(contentName, protectedContentName) up to its first await
DeleteContent(m, i, contentName, protectedContentName) ==
    LET normalized == normalizeContentName(contentName)
        invalid == validateContentName(normalized)
        entered == [m EXCEPT !.ops[i].name = normalized]
    IN IF invalid /= "" THEN Throw(m, i, invalid)
       ELSE IF normalized = DefaultName
       THEN Throw(m, i, "The default template cannot be deleted")
       ELSE IF /\ protectedContentName /= <<>>
               /\ normalized = normalizeContentName(protectedContentName)
       THEN Throw(m, i, "Cannot delete as it is protected")
       ELSE Issue(entered, i, "delete.exists", "exists", normalized, Absent)

\* copyContent(sourceContentName, targetContentName) up to its first await
CopyContent(m, i, sourceContentName, targetContentName) ==
    LET normalizedSource == normalizeContentName(sourceContentName)
        normalizedTarget == normalizeContentName(targetContentName)
        invalid == validateContentName(normalizedTarget)
        entered == [m EXCEPT !.ops[i].name = normalizedSource,
                             !.ops[i].target = normalizedTarget]
    IN IF invalid /= "" THEN Throw(m, i, invalid)
       ELSE IF normalizedTarget = DefaultName
       THEN Throw(m, i, "Cannot overwrite the default template")
       ELSE Issue(entered, i, "copy.exists", "exists", normalizedTarget, Absent)

\* the call resumes with the result of the adapter method it awaited
Resume(m, i) ==
    LET op == m.ops[i]
        value == op.io.value
        pc == op.pc
    IN CASE pc = "load.exists" ->
              IF value = "true" THEN Issue(m, i, "load.read", "read", op.name, Absent)
              ELSE IF op.name = DefaultName THEN EnsureDirectory(m, i, "init.dirExists")
              ELSE LoadContent(m, i, DefaultName)
         [] pc = "load.read" ->
              IF value = Absent THEN Throw(m, i, "read")
              ELSE Loaded([m EXCEPT !.cache[op.name] = value], i, value, op.name)
         [] pc = "init.dirExists" ->
              IF value = "true"
              THEN Issue(m, i, "init.write", "write", DefaultName, DefaultContent)
              ELSE Issue(m, i, "init.mkdir", "mkdir", Directory, Absent)
         [] pc = "init.mkdir" ->
              Issue(m, i, "init.write", "write", DefaultName, DefaultContent)
         [] pc = "init.write" ->
              Loaded([m EXCEPT !.cache[DefaultName] = DefaultContent], i,
                     DefaultContent, DefaultName)
         [] pc = "save.dirExists" ->
              IF value = "true"
              THEN Issue(m, i, "save.write", "write", op.name, op.content)
              ELSE Issue(m, i, "save.mkdir", "mkdir", Directory, Absent)
         [] pc = "save.mkdir" ->
              Issue(m, i, "save.write", "write", op.name, op.content)
         [] pc = "save.write" ->
              Return([m EXCEPT !.cache[op.name] = op.content], i)
         [] pc = "delete.exists" ->
              IF value = "true" THEN Issue(m, i, "delete.remove", "remove", op.name, Absent)
              ELSE Return([m EXCEPT !.cache[op.name] = Absent,
                                    !.removed = @ \cup {op.name}], i)
         [] pc = "delete.remove" ->
              IF value = Absent THEN Throw(m, i, "remove")
              ELSE Return([m EXCEPT !.cache[op.name] = Absent,
                                    !.removed = @ \cup {op.name}], i)
         [] pc = "copy.exists" ->
              IF value = "true" THEN Throw(m, i, "Content already exists")
              ELSE LoadContent(m, i, op.name)
         [] OTHER -> m

\* the host carries out the adapter method the call is suspended on
Perform(m, i) ==
    LET io == m.ops[i].io
        done(value) == [m EXCEPT !.ops[i].io.done = TRUE, !.ops[i].io.value = value]
    IN CASE io.kind = "exists" ->
              IF io.path = Directory THEN done(IF m.dir THEN "true" ELSE "false")
              ELSE done(IF m.files[io.path] /= Absent THEN "true" ELSE "false")
         [] io.kind = "mkdir" -> [done("ok") EXCEPT !.dir = TRUE]
         [] io.kind = "read" -> done(m.files[io.path])
         [] io.kind = "write" ->
              [done("ok") EXCEPT !.dir = TRUE, !.files[io.path] = io.data,
                                 !.removed = @ \ {io.path}]
         [] io.kind = "remove" ->
              IF m.files[io.path] = Absent THEN done(Absent)
              ELSE [done("ok") EXCEPT !.files[io.path] = Absent]
         [] OTHER -> m

Slots == 1..MaxOps
Free(i) == manager.ops[i].pc \in {"none", "returned", "threw"}
\* a new call is kept in the first slot that holds no call in flight
MayCall(i) ==
    /\ manager.pc = "ready"
    /\ Free(i)
    /\ \A j \in 1..(i - 1) : ~Free(j)
    /\ manager.started < MaxManagerCalls
Begin(op, name, i) ==
    [manager EXCEPT !.started = @ + 1, !.ops[i] = NewOp(op, name)]

exceptManager ==
    <<embedVars, batchVars, pass, render, pipeline, splice, escape, sandbox, cache,
      renderer>>

CallLoadContent ==
    /\ \E i \in Slots, contentName \in RawNames :
          /\ MayCall(i)
          /\ LET raw == normalizeContentName(contentName)
                 asked == IF raw = <<>> THEN DefaultName ELSE raw
                 begun == Begin("loadContent", asked, i)
             IN manager' = LoadContent(
                    [begun EXCEPT !.ops[i].afterDelete = asked \in manager.removed],
                    i, contentName)
    /\ UNCHANGED exceptManager

CallSaveContent ==
    /\ \E i \in Slots, contentName \in RawNames, content \in UserContents :
          /\ MayCall(i)
          /\ manager' = SaveContent(
                 Begin("saveContent", normalizeContentName(contentName), i),
                 i, contentName, content)
    /\ UNCHANGED exceptManager

CallDeleteContent ==
    /\ \E i \in Slots, contentName \in RawNames, protectedContentName \in {<<>>, <<"a">>} :
          /\ MayCall(i)
          /\ manager' = DeleteContent(
                 Begin("deleteContent", normalizeContentName(contentName), i),
                 i, contentName, protectedContentName)
    /\ UNCHANGED exceptManager

CallCopyContent ==
    /\ \E i \in Slots, sourceContentName \in RawNames, targetContentName \in RawNames :
          /\ MayCall(i)
          /\ manager' = CopyContent(
                 Begin("copyContent", normalizeContentName(sourceContentName), i),
                 i, sourceContentName, targetContentName)
    /\ UNCHANGED exceptManager

\* clearCache()
ClearCache ==
    /\ manager.pc = "ready"
    /\ manager.started < MaxManagerCalls
    /\ manager' = [manager EXCEPT !.started = @ + 1,
                                  !.cache = [name \in ContentNames |-> Absent]]
    /\ UNCHANGED exceptManager

AdapterPerforms ==
    /\ manager.pc = "ready"
    /\ \E i \in Slots :
          /\ ~Free(i)
          /\ ~manager.ops[i].io.done
          /\ manager' = Perform(manager, i)
    /\ UNCHANGED exceptManager

AdapterSettles ==
    /\ manager.pc = "ready"
    /\ \E i \in Slots :
          /\ ~Free(i)
          /\ manager.ops[i].io.done
          /\ manager' = Resume(manager, i)
    /\ UNCHANGED exceptManager

\* a manager just constructed over a vault whose content directory may hold
\* the default template written by an earlier session and a user's file
InitManager ==
    /\ vault = ArbitraryVault
    /\ options = [maxEmbedDepth |-> 0, enableEmbeds |-> TRUE]
    /\ calls = [c \in Calls |-> NoCall]
    /\ lastIndex = 0
    /\ context = InitialContext
    /\ batch = NoBatch
    /\ pass = Idle
    /\ render = Idle
    /\ pipeline = Idle
    /\ splice = Idle
    /\ escape = Idle
    /\ sandbox = Idle
    /\ \E default \in {Absent, DefaultContent}, user \in {Absent, "x"} :
          manager = [pc |-> "ready",
                     dir |-> (default /= Absent \/ user /= Absent),
                     files |-> [name \in ContentNames |->
                                  IF name = DefaultName THEN default
                                  ELSE IF name = <<"a">> THEN user ELSE Absent],
                     cache |-> [name \in ContentNames |-> Absent],
                     ops |-> [i \in Slots |-> NoOp],
                     started |-> 0,
                     removed |-> {}]
    /\ cache = Idle
    /\ renderer = Idle

NextManager ==
    \/ CallLoadContent
    \/ CallSaveContent
    \/ CallDeleteContent
    \/ CallCopyContent
    \/ ClearCache
    \/ AdapterPerforms
    \/ AdapterSettles

SpecManager == InitManager /\ [][NextManager]_vars

\* C24: no sequence of saveContent, deleteContent and copyContent calls
\* changes or removes what is stored under the default name: its file and its
\* cache entry hold nothing but the built-in default content.
C24_DefaultContentReadOnly ==
    manager.pc = "ready" =>
        /\ manager.files[DefaultName] \in {Absent, DefaultContent}
        /\ manager.cache[DefaultName] \in {Absent, DefaultContent}

\* C29: a loadContent(name) called after deleteContent(name) has completed,
\* with nothing written under the name since, returns what is kept under the
\* default name, also when another loadContent(name) was in flight during the
\* delete and completed after it.
C29_NoLoadOfDeletedContent ==
    manager.pc = "ready" =>
        \A i \in Slots :
            LET op == manager.ops[i]
            IN (/\ op.pc = "returned"
                /\ op.op = "loadContent"
                /\ op.afterDelete
                /\ op.asked \in manager.removed)
                  => op.served = DefaultName

(***************************************************************************)
(* TypstCache: a Map from code hashes to entries and the list of the hashes  *)
(* in order of use, least recently used first.                               *)
(***************************************************************************)
\* largest maxSize explored
MaxCacheSize == 2

CodeHashes == {"", "a", "b"}
Svgs == {"svg1", "svg2"}
NoEntry == "no entry"

\* Array.prototype.indexOf: 0 here where JavaScript gives -1
RECURSIVE IndexOf(_, _, _)
IndexOf(order, codeHash, j) ==
    IF j > Len(order) THEN 0
    ELSE IF order[j] = codeHash THEN j
    ELSE IndexOf(order, codeHash, j + 1)

removeFromAccessOrder(c, codeHash) ==
    LET index == IndexOf(c.accessOrder, codeHash, 1)
    IN IF index /= 0
       THEN [c EXCEPT !.accessOrder =
                SubSeq(@, 1, index - 1) \o SubSeq(@, index + 1, Len(@))]
       ELSE c

updateAccessOrder(c, codeHash) ==
    [removeFromAccessOrder(c, codeHash) EXCEPT !.accessOrder = Append(@, codeHash)]

\* `if (oldest)` is false for the empty string
evictOldest(c) ==
    IF Len(c.accessOrder) = 0 THEN c
    ELSE LET oldest == Head(c.accessOrder)
             shifted == [c EXCEPT !.accessOrder = Tail(@)]
         IN IF oldest /= ""
            THEN [shifted EXCEPT !.cache[oldest] = NoEntry]
            ELSE shifted

\* Map.prototype.size
size(c) == Cardinality({codeHash \in CodeHashes : c.cache[codeHash] /= NoEntry})

exceptCache ==
    <<embedVars, batchVars, pass, render, pipeline, splice, escape, sandbox,
      manager, renderer>>

\* get(codeHash); null is written NoEntry
CacheGet ==
    /\ cache.pc = "ready"
    /\ \E codeHash \in CodeHashes :
          LET entry == cache.cache[codeHash]
              called == [cache EXCEPT !.call = [op |-> "get", codeHash |-> codeHash,
                                                svg |-> entry]]
          IN cache' = IF entry = NoEntry THEN called
                      ELSE updateAccessOrder(called, codeHash)
    /\ UNCHANGED exceptCache

\* set(codeHash, svg)
CacheSet ==
    /\ cache.pc = "ready"
    /\ \E codeHash \in CodeHashes, svg \in Svgs :
          LET called == [cache EXCEPT !.call = [op |-> "set", codeHash |-> codeHash,
                                                svg |-> svg]]
              removed == IF called.cache[codeHash] /= NoEntry
                         THEN removeFromAccessOrder(called, codeHash)
                         ELSE called
              evicted == IF size(removed) >= removed.maxSize
                         THEN evictOldest(removed)
                         ELSE removed
          IN cache' = [evicted EXCEPT !.cache[codeHash] = svg,
                                      !.accessOrder = Append(@, codeHash)]
    /\ UNCHANGED exceptCache

\* clear()
CacheClear ==
    /\ cache.pc = "ready"
    /\ cache' = [cache EXCEPT !.cache = [codeHash \in CodeHashes |-> NoEntry],
                              !.accessOrder = <<>>,
                              !.call = [op |-> "clear", codeHash |-> "", svg |-> NoEntry]]
    /\ UNCHANGED exceptCache

\* new TypstCache(maxSize) that did not throw
InitCache ==
    /\ vault = ArbitraryVault
    /\ options = [maxEmbedDepth |-> 0, enableEmbeds |-> TRUE]
    /\ calls = [c \in Calls |-> NoCall]
    /\ lastIndex = 0
    /\ context = InitialContext
    /\ batch = NoBatch
    /\ pass = Idle
    /\ render = Idle
    /\ pipeline = Idle
    /\ splice = Idle
    /\ escape = Idle
    /\ sandbox = Idle
    /\ manager = Idle
    /\ \E maxSize \in 1..MaxCacheSize :
          cache = [pc |-> "ready", maxSize |-> maxSize,
                   cache |-> [codeHash \in CodeHashes |-> NoEntry],
                   accessOrder |-> <<>>,
                   call |-> [op |-> "new", codeHash |-> "", svg |-> NoEntry]]
    /\ renderer = Idle

NextCache == CacheGet \/ CacheSet \/ CacheClear

SpecCache == InitCache /\ [][NextCache]_vars

\* C25: after any sequence of get, set and clear, for any keys, the empty
\* string included, size() is at most maxSize and the access-order list holds
\* exactly the cached keys, each once.
C25_SizeBoundedAndOrderMatchesKeys ==
    cache.pc = "ready" =>
        /\ size(cache) <= cache.maxSize
        /\ \A codeHash \in CodeHashes :
              Cardinality({j \in 1..Len(cache.accessOrder) :
                              cache.accessOrder[j] = codeHash})
                 = IF cache.cache[codeHash] /= NoEntry THEN 1 ELSE 0

\* C26: set on a key that is already cached leaves every other key's entry
\* as it was, also when the cache is full; it replaces the key's value and
\* makes the key the most recently used.
C26_SetOnCachedKeyEvictsNothing ==
    [][(/\ cache.pc = "ready"
        /\ cache'.call.op = "set"
        /\ cache.cache[cache'.call.codeHash] /= NoEntry)
          => /\ \A other \in CodeHashes \ {cache'.call.codeHash} :
                   cache'.cache[other] = cache.cache[other]
             /\ cache'.cache[cache'.call.codeHash] = cache'.call.svg
             /\ cache'.accessOrder[Len(cache'.accessOrder)] = cache'.call.codeHash]_vars

(***************************************************************************)
(* initialize() of TypstWasmRenderer and of TypstDocxService, and the        *)
(* methods that call it.  An attempt is one run of doInitialize; initPromise *)
(* is the number of the attempt whose promise is stored, 0 for null.         *)
(***************************************************************************)
\* calls made on one instance
MaxInitCalls == 3

Classes == {"TypstWasmRenderer", "TypstDocxService"}

\* the awaits of doInitialize, in order
Stages(class) ==
    IF class = "TypstWasmRenderer"
    THEN <<"storage.initialize", "hasWasm compiler", "hasWasm renderer",
           "loadWasm compiler", "loadWasm renderer", "import">>
    ELSE <<"storage.initialize", "storage.load", "import", "bindgen.default">>

\* the awaits whose value is tested, and those after which the test is made
Valued(class) ==
    IF class = "TypstWasmRenderer" THEN {2, 3, 4, 5} ELSE {2}
Tested(class) ==
    IF class = "TypstWasmRenderer" THEN {3, 5} ELSE {2}

Pending(r) == {a \in 1..Len(r.attempts) : r.attempts[a].state = "pending"}

\* what the caller then entering initialize() is told about the moment of its
\* call: the attempt in flight, and whether an attempt has failed with none
\* in flight and none succeeded
Caller(r, op) ==
    [op |-> op, pc |-> "awaiting", attempt |-> 0,
     overlapped |-> IF Pending(r) = {} THEN 0 ELSE CHOOSE a \in Pending(r) : TRUE,
     afterFailure |-> /\ ~r.initialized
                      /\ Pending(r) = {}
                      /\ \E a \in 1..Len(r.attempts) : r.attempts[a].state = "rejected"]

\* doInitialize() up to its first await
doInitialize(r) ==
    [r EXCEPT !.attempts = Append(@, [stage |-> 1, state |-> "pending",
                                      by |-> Len(r.callers) + 1, missing |-> FALSE])]

\* an initialize() that starts doInitialize whenever the instance is not yet
\* initialized
initializeUnguarded(r, op) ==
    IF r.initialized
    THEN [r EXCEPT !.callers = Append(@, [Caller(r, op) EXCEPT !.pc = "settling"])]
    ELSE LET started == doInitialize(r)
         IN [started EXCEPT !.initPromise = Len(started.attempts),
                            !.callers = Append(@, [Caller(r, op) EXCEPT
                                                     !.attempt = Len(started.attempts)])]

\* initialize(), called by the caller `op`, up to its return of a promise
initialize(r, op) ==
    IF r.initialized
    THEN [r EXCEPT !.callers = Append(@, [Caller(r, op) EXCEPT !.pc = "settling"])]
    ELSE IF r.initPromise /= 0
    THEN [r EXCEPT !.callers = Append(@, [Caller(r, op) EXCEPT
                                            !.attempt = r.initPromise])]
    ELSE LET started == doInitialize(r)
         IN [started EXCEPT !.initPromise = Len(started.attempts),
                            !.callers = Append(@, [Caller(r, op) EXCEPT
                                                     !.attempt = Len(started.attempts)])]

\* the catch block of doInitialize
InitializationFailed(r, a) ==
    LET rejected == [r EXCEPT !.attempts[a].state = "rejected"]
    IN IF r.class = "TypstDocxService"
       THEN [rejected EXCEPT !.initialized = FALSE, !.initPromise = 0]
       ELSE rejected

\* doInitialize resumes after the await it was suspended on
Continue(r, a, outcome) ==
    LET attempt == r.attempts[a]
        missing == attempt.missing \/ (attempt.stage \in Valued(r.class) /\ outcome = "nothing")
    IN IF outcome = "rejects" THEN InitializationFailed(r, a)
       ELSE IF attempt.stage \in Tested(r.class) /\ missing
       THEN InitializationFailed(r, a)
       ELSE IF attempt.stage = Len(Stages(r.class))
       THEN [r EXCEPT !.attempts[a].state = "fulfilled", !.initialized = TRUE,
                      !.module = TRUE]
       ELSE [r EXCEPT !.attempts[a].stage = @ + 1, !.attempts[a].missing = missing]

\* what follows initialization in the calling method
Use(r, k) ==
    IF r.callers[k].op = "initialize" THEN [r EXCEPT !.callers[k].pc = "fulfilled"]
    ELSE IF r.class = "TypstWasmRenderer" THEN [r EXCEPT !.callers[k].pc = "hashCode"]
    ELSE IF r.module THEN [r EXCEPT !.callers[k].pc = "fulfilled"]
    ELSE [r EXCEPT !.callers[k].pc = "rejected"]

exceptRenderer ==
    <<embedVars, batchVars, pass, render, pipeline, splice, escape, sandbox,
      manager, cache>>

MayEnter == renderer.pc = "ready" /\ Len(renderer.callers) < MaxInitCalls

\* initialize() is called
CallInitialize ==
    /\ MayEnter
    /\ renderer' = initialize(renderer, "initialize")
    /\ UNCHANGED exceptRenderer

\* renderToSVG(code), convertTypstToDocx(source) is called
CallRender ==
    /\ MayEnter
    /\ renderer' =
          IF ~renderer.initialized THEN initialize(renderer, "render")
          ELSE Use([renderer EXCEPT !.callers =
                       Append(@, [Caller(renderer, "render") EXCEPT !.pc = "entered"])],
                   Len(renderer.callers) + 1)
    /\ UNCHANGED exceptRenderer

\* the await an attempt is suspended on settles
AttemptSettles ==
    /\ renderer.pc = "ready"
    /\ \E a \in Pending(renderer), outcome \in {"value", "nothing", "rejects"} :
          renderer' = Continue(renderer, a, outcome)
    /\ UNCHANGED exceptRenderer

\* a caller resumes on the promise initialize() returned to it
CallerResumes ==
    /\ renderer.pc = "ready"
    /\ \E k \in 1..Len(renderer.callers) :
          LET caller == renderer.callers[k]
          IN \/ /\ caller.pc = "settling"
                /\ renderer' = Use(renderer, k)
             \/ /\ caller.pc = "awaiting"
                /\ renderer.attempts[caller.attempt].state = "fulfilled"
                /\ renderer' = Use(renderer, k)
             \/ /\ caller.pc = "awaiting"
                /\ renderer.attempts[caller.attempt].state = "rejected"
                /\ renderer' = [renderer EXCEPT !.callers[k].pc = "rejected"]
    /\ UNCHANGED exceptRenderer

\* renderToSVG after `await this.hashCode(code)`: the cache, then compile
HashSettles ==
    /\ renderer.pc = "ready"
    /\ \E k \in 1..Len(renderer.callers) :
          /\ renderer.callers[k].pc = "hashCode"
          /\ renderer' = [renderer EXCEPT !.callers[k].pc =
                            IF renderer.cached THEN "fulfilled"
                            ELSE IF renderer.module THEN "compile"
                            ELSE "rejected"]
    /\ UNCHANGED exceptRenderer

\* renderToSVG after `await this.compile(code)`
CompileSettles ==
    /\ renderer.pc = "ready"
    /\ \E k \in 1..Len(renderer.callers), compiled \in BOOLEAN :
          /\ renderer.callers[k].pc = "compile"
          /\ renderer' = IF compiled
                         THEN [renderer EXCEPT !.callers[k].pc = "fulfilled",
                                               !.cached = TRUE]
                         ELSE [renderer EXCEPT !.callers[k].pc = "rejected"]
    /\ UNCHANGED exceptRenderer

InitRenderer ==
    /\ vault = ArbitraryVault
    /\ options = [maxEmbedDepth |-> 0, enableEmbeds |-> TRUE]
    /\ calls = [c \in Calls |-> NoCall]
    /\ lastIndex = 0
    /\ context = InitialContext
    /\ batch = NoBatch
    /\ pass = Idle
    /\ render = Idle
    /\ pipeline = Idle
    /\ splice = Idle
    /\ escape = Idle
    /\ sandbox = Idle
    /\ manager = Idle
    /\ cache = Idle
    /\ \E class \in Classes :
          renderer = [pc |-> "ready", class |-> class, initialized |-> FALSE,
                      initPromise |-> 0, module |-> FALSE, cached |-> FALSE,
                      attempts |-> <<>>, callers |-> <<>>]

NextRenderer ==
    \/ CallInitialize
    \/ CallRender
    \/ AttemptSettles
    \/ CallerResumes
    \/ HashSettles
    \/ CompileSettles

SpecRenderer == InitRenderer /\ [][NextRenderer]_vars

\* C27: on one TypstWasmRenderer or TypstDocxService, however the calls of
\* initialize() overlap, doInitialize is started only when every earlier
\* attempt has failed (so never while one is in flight and never after one
\* succeeded), a caller that entered while an attempt was in flight waits on
\* that attempt, and every caller settles as its attempt did.
C27_SingleAttemptSharedByCallers ==
    renderer.pc = "ready" =>
        /\ \A a, b \in 1..Len(renderer.attempts) :
              a < b => renderer.attempts[a].state = "rejected"
        /\ \A k \in 1..Len(renderer.callers) :
              LET caller == renderer.callers[k]
              IN /\ caller.overlapped /= 0 => caller.attempt = caller.overlapped
                 /\ (caller.op = "initialize" /\ caller.attempt /= 0
                       /\ caller.pc \in {"fulfilled", "rejected"})
                      => caller.pc = renderer.attempts[caller.attempt].state

\* three calls of initialize() overlapped on one attempt, which failed, and
\* all three were rejected
C27_Witness ==
    /\ renderer.pc = "ready"
    /\ Len(renderer.attempts) = 1
    /\ renderer.attempts[1].state = "rejected"
    /\ Len(renderer.callers) = 3
    /\ \A k \in 1..3 :
          /\ renderer.callers[k].op = "initialize"
          /\ renderer.callers[k].attempt = 1
          /\ renderer.callers[k].pc = "rejected"
    /\ renderer.callers[2].overlapped = 1
    /\ renderer.callers[3].overlapped = 1

\* C28: a call of initialize() or renderToSVG on a TypstWasmRenderer whose
\* attempt has failed waits on an attempt started by that call, not on the
\* failed one.
C28_FreshAttemptAfterFailure ==
    (renderer.pc = "ready" /\ renderer.class = "TypstWasmRenderer") =>
        \A k \in 1..Len(renderer.callers) :
            renderer.callers[k].afterFailure =>
                /\ renderer.callers[k].attempt /= 0
                /\ renderer.attempts[renderer.callers[k].attempt].by = k

====
